---- MODULE Spec2Model ----
(***************************************************************************)
(* Game/book tracker stores of DengXiaoLong0611/Gametracker:               *)
(*   GameStore      (store.py)       in-memory dict + JSON file, one lock  *)
(*   BookStore      (book_store.py)  in-memory dict + JSON file, one lock  *)
(*   MultiUserStore (user_store.py)  per-user rows in a relational DB      *)
(* Strings are sequences of one-character strings so that str.strip() and  *)
(* str.lower() are computed, not assumed.                                  *)
(***************************************************************************)
EXTENDS Integers, Sequences, FiniteSets, TLC

VARIABLES
    games,        \* GameStore._games      : id -> Game
    next_id,      \* GameStore._next_id
    limit,        \* GameStore._limit
    data_file,    \* content of games_data.json (NoFile when absent)
    issued,       \* history: ids GameStore.add_game has handed out so far
    sync_enabled, \* GameStore._github_sync_enabled and github_sync.is_enabled()
    github_file,  \* content of games_data.json in the GitHub repository
    pushes,       \* data of the upload threads that have not finished
    books,        \* BookStore._books      : id -> Book
    book_next_id, \* BookStore._next_id
    book_limit,   \* BookStore._limit
    book_file,    \* content of books_data.json (NoFile when absent)
    db_games,     \* rows of table "games"    : id -> GameModel
    db_books,     \* rows of table "books"    : id -> BookModel
    db_settings,  \* rows of table "settings" : key -> user_id -> value
    db_seq,       \* the id sequences of "games" and "books"
    target,       \* the store the calls of this behaviour go to
    last,         \* the most recent call: operation and exception
    lock,         \* threads holding the store's _lock (threading.Lock: at most one)
    pc,           \* where each concurrent request is in its call
    req           \* what each concurrent request carries from its check to its write

gameVars == <<games, next_id, limit, data_file, issued, sync_enabled, github_file, pushes>>
bookVars == <<books, book_next_id, book_limit, book_file>>
dbVars == <<db_games, db_books, db_settings, db_seq>>
concVars == <<lock, pc, req>>
vars == <<games, next_id, limit, data_file, issued, sync_enabled, github_file, pushes,
          books, book_next_id, book_limit, book_file,
          db_games, db_books, db_settings, db_seq, target, last, lock, pc, req>>

----------------------------------------------------------------------------
(* Bounds of the model *)

MaxId == 2          \* add-item is explored while the next id is <= MaxId
NumThreads == 2     \* requests that are served concurrently
MaxPushes == 1      \* upload threads that are followed at once
MaxRacingPushes == 2 \* upload threads in flight at once when their race is followed

----------------------------------------------------------------------------
(* Python values *)

None == "None"                      \* Python None (ended_at, no exception)
Times == {"t1"}                     \* values datetime.now() may return

ACTIVE == "active"
READING == "reading"
PAUSED == "paused"
CASUAL == "casual"
REFERENCE == "reference"
PLANNED == "planned"
FINISHED == "finished"
DROPPED == "dropped"

GameStatus == {ACTIVE, PAUSED, CASUAL, PLANNED, FINISHED, DROPPED}
BookStatus == {READING, PAUSED, REFERENCE, PLANNED, FINISHED, DROPPED}

\* Titles: "F", "f ", "G" and the whitespace-only " "; all pass the
\* min_length=1 check of GameCreate/GameUpdate/BookCreate/BookUpdate.
TitleInputs == { <<"F">>, <<"f", " ">>, <<"G">>, <<" ">> }

\* str.lower() on one character
lower_char(c) == CASE c = "F" -> "f" [] c = "G" -> "g" [] OTHER -> c

\* str.lower()
lower(s) == [i \in DOMAIN s |-> lower_char(s[i])]

RECURSIVE lstrip(_)
lstrip(s) == IF s # <<>> /\ Head(s) = " " THEN lstrip(Tail(s)) ELSE s

RECURSIVE rstrip(_)
rstrip(s) == IF s # <<>> /\ s[Len(s)] = " " THEN rstrip(SubSeq(s, 1, Len(s) - 1)) ELSE s

\* str.strip()
strip(s) == rstrip(lstrip(s))

\* Field(..., min_length=1) of Game.name / Book.title (max_length is not
\* reachable with the titles of the model)
min_length_ok(s) == Len(s) >= 1

\* dict with key k set to v (d[k] = v)
dict_set(d, k, v) == [i \in (DOMAIN d) \cup {k} |-> IF i = k THEN v ELSE d[i]]

\* del d[k]
dict_del(d, k) == [i \in (DOMAIN d) \ {k} |-> d[i]]

EmptyDict == [i \in {} |-> None]

----------------------------------------------------------------------------
(* GameStore (store.py) *)

NoFile == [exists |-> FALSE]

\* the three fields of a GameStore that its operations read and write
GameStoreState == [games |-> games, next_id |-> next_id, limit |-> limit]

\* models.Game restricted to the fields the store logic branches on
Game(id, name, status, created_at, ended_at) ==
    [id |-> id, name |-> name, status |-> status, created_at |-> created_at,
     ended_at |-> ended_at]

\* outcome of a call: the store afterwards, the exception raised (None when
\* the call returned) and whether _save_data() was reached
Raise(S, e) == [store |-> S, exc |-> e, saved |-> FALSE]
Return(S) == [store |-> S, exc |-> None, saved |-> TRUE]

active_games(G) == {i \in DOMAIN G : G[i].status = ACTIVE}

\* GameStore._is_duplicate_active_name; exclude is {} for exclude_id=None
is_duplicate_active_name(G, name, exclude) ==
    \E i \in active_games(G) :
        /\ G[i].id \notin exclude
        /\ lower(G[i].name) = lower(name)

\* GameStore._would_create_duplicate_active_name
would_create_duplicate_active_name(G, game_id, name, new_status) ==
    IF new_status = ACTIVE THEN is_duplicate_active_name(G, name, {game_id}) ELSE FALSE

\* add_game with the limit test written as > instead of >= (one game too many)
add_game_limit_off_by_one(S, game_data, now) ==
    LET name == strip(game_data.name)
        ended_at == IF game_data.status \in {FINISHED, DROPPED} THEN now ELSE None
        game == Game(S.next_id, name, game_data.status, now, ended_at)
    IN  IF game_data.status = ACTIVE /\ Cardinality(active_games(S.games)) > S.limit
        THEN Raise(S, "GameLimitExceededError")
        ELSE IF game_data.status = ACTIVE /\ is_duplicate_active_name(S.games, name, {})
        THEN Raise(S, "DuplicateGameError")
        ELSE IF ~min_length_ok(name)
        THEN Raise(S, "ValidationError")
        ELSE Return([S EXCEPT !.games = dict_set(@, S.next_id, game),
                              !.next_id = @ + 1])

\* GameStore.add_game
add_game(S, game_data, now) ==
    LET name == strip(game_data.name)
        ended_at == IF game_data.status \in {FINISHED, DROPPED} THEN now ELSE None
        game == Game(S.next_id, name, game_data.status, now, ended_at)
    IN  IF game_data.status = ACTIVE /\ Cardinality(active_games(S.games)) >= S.limit
        THEN Raise(S, "GameLimitExceededError")
        ELSE IF game_data.status = ACTIVE /\ is_duplicate_active_name(S.games, name, {})
        THEN Raise(S, "DuplicateGameError")
        ELSE IF ~min_length_ok(name)
        THEN Raise(S, "ValidationError")
        ELSE Return([S EXCEPT !.games = dict_set(@, S.next_id, game),
                              !.next_id = @ + 1])

\* GameStore._handle_status_change: the game afterwards, or the exception
handle_status_change(S, game, updates, current_status, now) ==
    LET new_status == updates.status
        check_name == IF "name" \in updates.set THEN strip(updates.name) ELSE game.name
    IN  IF new_status = ACTIVE
        THEN IF current_status # ACTIVE /\ Cardinality(active_games(S.games)) >= S.limit
             THEN [game |-> game, exc |-> "GameLimitExceededError"]
             ELSE IF current_status # ACTIVE /\ is_duplicate_active_name(S.games, check_name, {game.id})
             THEN [game |-> game, exc |-> "DuplicateGameError"]
             ELSE [game |-> [game EXCEPT !.ended_at = None, !.status = new_status], exc |-> None]
        ELSE IF new_status \in {PAUSED, CASUAL, PLANNED}
        THEN [game |-> [game EXCEPT !.ended_at = None, !.status = new_status], exc |-> None]
        ELSE [game |-> [game EXCEPT !.ended_at = IF current_status = ACTIVE THEN now ELSE @,
                                    !.status = new_status],
              exc |-> None]

\* update_game written as game.copy(update=updates.dict()): a status the
\* request does not carry is assigned as None
update_game_copy_update(S, game_id, updates, now) ==
    IF game_id \notin DOMAIN S.games
    THEN Raise(S, "GameNotFoundError")
    ELSE
    LET game == S.games[game_id]
        current_status == game.status
        has_name == "name" \in updates.set
        has_status == "status" \in updates.set
        name == strip(updates.name)
        game1 == IF has_name THEN [game EXCEPT !.name = name] ELSE game
        S1 == [S EXCEPT !.games = dict_set(@, game_id, game1)]
        hs == handle_status_change(S1, game1, updates, current_status, now)
    IN  IF has_name /\ would_create_duplicate_active_name(S.games, game_id, name,
                            IF has_status THEN updates.status ELSE game.status)
        THEN Raise(S, "DuplicateGameError")
        ELSE IF ~has_status
        THEN Return([S1 EXCEPT !.games = dict_set(@, game_id, [game1 EXCEPT !.status = None])])
        ELSE IF hs.exc # None
        THEN Raise(S1, hs.exc)
        ELSE Return([S1 EXCEPT !.games = dict_set(@, game_id, hs.game)])


\* GameStore.update_game; updates.set is the set of fields that are not None
update_game(S, game_id, updates, now) ==
    IF game_id \notin DOMAIN S.games
    THEN Raise(S, "GameNotFoundError")
    ELSE
    LET game == S.games[game_id]
        current_status == game.status
        has_name == "name" \in updates.set
        has_status == "status" \in updates.set
        name == strip(updates.name)
        game1 == IF has_name THEN [game EXCEPT !.name = name] ELSE game
        S1 == [S EXCEPT !.games = dict_set(@, game_id, game1)]
        hs == handle_status_change(S1, game1, updates, current_status, now)
    IN  IF has_name /\ would_create_duplicate_active_name(S.games, game_id, name,
                            IF has_status THEN updates.status ELSE game.status)
        THEN Raise(S, "DuplicateGameError")
        ELSE IF ~has_status
        THEN Return(S1)
        ELSE IF hs.exc # None
        THEN Raise(S1, hs.exc)
        ELSE Return([S1 EXCEPT !.games = dict_set(@, game_id, hs.game)])

\* GameStore.get_all_games: the games of each list, by status
get_all_games(S) ==
    [s \in GameStatus |-> {S.games[i] : i \in {j \in DOMAIN S.games : S.games[j].status = s}}]


\* GameStore.get_active_count: the count of the limited status and the limit
get_active_count(S) == [count |-> Cardinality(active_games(S.games)), limit |-> S.limit]


\* delete_game written with self._games.pop(game_id, None): an absent id is
\* not reported
delete_game_pop(S, game_id) ==
    IF game_id \notin DOMAIN S.games
    THEN Return(S)
    ELSE Return([S EXCEPT !.games = dict_del(@, game_id)])

\* GameStore.delete_game
delete_game(S, game_id) ==
    IF game_id \notin DOMAIN S.games
    THEN Raise(S, "GameNotFoundError")
    ELSE Return([S EXCEPT !.games = dict_del(@, game_id)])

\* update_limit that stores the requested limit as it is
update_limit_unclamped(S, new_limit) == Return([S EXCEPT !.limit = new_limit])

\* GameStore.update_limit
update_limit(S, new_limit) ==
    Return([S EXCEPT !.limit = IF new_limit > 5 THEN 5
                               ELSE IF new_limit < 1 THEN 1
                               ELSE new_limit])

\* datetime.isoformat() and datetime.fromisoformat()
isoformat(t) == CASE t = "t1" -> "iso-t1" [] t = "t2" -> "iso-t2" [] OTHER -> "iso-t3"
fromisoformat(x) == CASE x = "iso-t1" -> "t1" [] x = "iso-t2" -> "t2" [] OTHER -> "t3"

\* one entry of data["games"] as _save_data writes it
game_dict(game) ==
    [game EXCEPT !.created_at = IF @ # None THEN isoformat(@) ELSE @,
                 !.ended_at = IF @ # None THEN isoformat(@) ELSE @]

\* GameStore._save_data: the document written to games_data.json
save_data(S) ==
    [exists |-> TRUE,
     games |-> [k \in DOMAIN S.games |-> game_dict(S.games[k])],
     next_id |-> S.next_id,
     limit |-> S.limit]

\* Game(**game_dict) in _load_data raises a ValidationError on these
game_dict_invalid(d) == ~min_length_ok(d.name) \/ d.status \notin GameStatus

\* GameStore._load_data on a store whose fields are S
load_data(S, f) ==
    IF ~f.exists
    THEN S
    ELSE IF \E k \in DOMAIN f.games : game_dict_invalid(f.games[k])
    THEN [games |-> EmptyDict, next_id |-> 1, limit |-> 5]
    ELSE [games |-> [k \in (DOMAIN S.games) \cup (DOMAIN f.games) |->
                        IF k \in DOMAIN f.games
                        THEN [f.games[k] EXCEPT
                                !.created_at = IF @ # None THEN fromisoformat(@) ELSE @,
                                !.ended_at = IF @ # None THEN fromisoformat(@) ELSE @]
                        ELSE S.games[k]],
          next_id |-> f.next_id,
          limit |-> f.limit]

\* GameStore.__init__ with the defaults app.py uses (GitHub sync disabled)
game_store_init == load_data([games |-> EmptyDict, next_id |-> 1, limit |-> 5], data_file)

\* GameStore._sync_from_github_on_startup: the files games_data.json may hold
\* after it; the download may fail, which leaves the local file
startup_files ==
    IF sync_enabled /\ github_file.exists THEN {data_file, github_file} ELSE {data_file}

\* GameStore.__init__ once games_data.json holds f
game_store_construct(f) == load_data([games |-> EmptyDict, next_id |-> 1, limit |-> 5], f)

----------------------------------------------------------------------------
(* BookStore (book_store.py) *)

\* the three fields of a BookStore that its operations read and write
BookStoreState == [books |-> books, next_id |-> book_next_id, limit |-> book_limit]

\* models.Book restricted to the fields the store logic branches on
Book(id, title, status, created_at, ended_at) ==
    [id |-> id, title |-> title, status |-> status, created_at |-> created_at,
     ended_at |-> ended_at]

\* len([b for b in self._books.values() if b.status == READING and b.id not in exclude])
reading_count(B, exclude) ==
    Cardinality({i \in DOMAIN B : B[i].status = READING /\ B[i].id \notin exclude})

\* the loop "book.status == READING and book.title.strip().lower() == title.strip().lower()"
\* over the books whose id is not in exclude
same_title_reading(B, title, exclude) ==
    \E i \in DOMAIN B :
        /\ B[i].id \notin exclude
        /\ B[i].status = READING
        /\ lower(strip(B[i].title)) = lower(strip(title))

\* BookStore.add_book
add_book(S, book_data, now) ==
    LET title == strip(book_data.title)
        ended_at == IF book_data.status \in {FINISHED, DROPPED} THEN now ELSE None
        book == Book(S.next_id, title, book_data.status, now, ended_at)
    IN  IF book_data.status = READING /\ reading_count(S.books, {}) >= S.limit
        THEN Raise(S, "BookLimitExceededError")
        ELSE IF book_data.status = READING /\ same_title_reading(S.books, book_data.title, {})
        THEN Raise(S, "DuplicateBookError")
        ELSE IF ~min_length_ok(title)
        THEN Raise(S, "ValidationError")
        ELSE Return([S EXCEPT !.books = dict_set(@, S.next_id, book),
                              !.next_id = @ + 1])

\* BookStore.update_book; updates.set is updates.dict(exclude_unset=True).keys()
update_book(S, book_id, updates, now) ==
    IF book_id \notin DOMAIN S.books
    THEN Raise(S, "BookNotFoundError")
    ELSE
    LET book == S.books[book_id]
        old_status == book.status
        has_title == "title" \in updates.set
        has_status == "status" \in updates.set
        new_status == updates.status
        \* for field, value in update_data.items(): setattr(book, field, value)
        book1 == [book EXCEPT !.title = IF has_title THEN updates.title ELSE @,
                              !.status = IF has_status THEN updates.status ELSE @]
        S1 == [S EXCEPT !.books = dict_set(@, book_id, book1)]
        to_reading == has_status /\ new_status = READING /\ old_status # READING
        book2 == [book1 EXCEPT !.ended_at =
                    IF has_status /\ new_status \in {FINISHED, DROPPED}
                                  /\ old_status \notin {FINISHED, DROPPED}
                    THEN now
                    ELSE IF has_status /\ old_status \in {FINISHED, DROPPED}
                                       /\ new_status \notin {FINISHED, DROPPED}
                    THEN None
                    ELSE @]
        S2 == [S EXCEPT !.books = dict_set(@, book_id, book2)]
    IN  IF to_reading /\ reading_count(S1.books, {book_id}) >= S.limit
        THEN Raise(S1, "BookLimitExceededError")
        ELSE IF to_reading /\ ~has_title /\ same_title_reading(S1.books, book1.title, {book_id})
        THEN Raise(S1, "DuplicateBookError")
        ELSE IF has_title /\ book2.status = READING
                          /\ same_title_reading(S2.books, book2.title, {book_id})
        THEN Raise(S2, "DuplicateBookError")
        ELSE Return(S2)

\* BookStore.get_all_books: the books of each list, by status
get_all_books(S) ==
    [s \in BookStatus |-> {S.books[i] : i \in {j \in DOMAIN S.books : S.books[j].status = s}}]


\* BookStore.get_reading_count: the count of the limited status and the limit
get_reading_count(S) == [count |-> reading_count(S.books, {}), limit |-> S.limit]


\* BookStore.delete_book
delete_book(S, book_id) ==
    IF book_id \notin DOMAIN S.books
    THEN Raise(S, "BookNotFoundError")
    ELSE Return([S EXCEPT !.books = dict_del(@, book_id)])

\* BookStore.update_limit
book_update_limit(S, new_limit) ==
    IF new_limit < 1
    THEN Raise(S, "ValueError")
    ELSE Return([S EXCEPT !.limit = new_limit])

\* str(datetime), which json.dump(..., default=str) writes, and the parse of
\* that string by Book(**book_data)
str_datetime(t) == CASE t = "t1" -> "str-t1" [] t = "t2" -> "str-t2" [] OTHER -> "str-t3"
parse_datetime(x) == CASE x = "str-t1" -> "t1" [] x = "str-t2" -> "t2" [] OTHER -> "t3"

\* BookStore._save_data: the document written to books_data.json
book_save_data(S) ==
    [exists |-> TRUE,
     books |-> [k \in DOMAIN S.books |->
                  [S.books[k] EXCEPT !.created_at = IF @ # None THEN str_datetime(@) ELSE @,
                                     !.ended_at = IF @ # None THEN str_datetime(@) ELSE @]],
     next_id |-> S.next_id,
     limit |-> S.limit]

\* Book(**book_data) in _load_data raises a ValidationError on these
book_data_invalid(d) == ~min_length_ok(d.title) \/ d.status \notin BookStatus

\* BookStore._load_data on a store whose fields are S and whose file exists:
\* the loop stops at the first entry Book() rejects and keeps what it loaded
book_load_data(S, f) ==
    LET bad == {k \in DOMAIN f.books : book_data_invalid(f.books[k])}
        loaded == {k \in DOMAIN f.books : \A j \in bad : k < j}
    IN  [books |-> [k \in (DOMAIN S.books) \cup {f.books[j].id : j \in loaded} |->
                      IF k \in {f.books[j].id : j \in loaded}
                      THEN [f.books[k] EXCEPT
                              !.created_at = IF @ # None THEN parse_datetime(@) ELSE @,
                              !.ended_at = IF @ # None THEN parse_datetime(@) ELSE @]
                      ELSE S.books[k]],
         next_id |-> f.next_id,
         limit |-> f.limit]

\* BookStore.__init__ with the defaults app.py uses
book_store_init ==
    LET S0 == [books |-> EmptyDict, next_id |-> 1, limit |-> 3]
    IN  IF book_file.exists
        THEN [store |-> book_load_data(S0, book_file), file |-> book_file]
        ELSE [store |-> S0, file |-> book_save_data(S0)]

----------------------------------------------------------------------------
(* MultiUserStore (user_store.py) over the tables of db_models.py.  A call    *)
(* runs in one session; an exception rolls the session back (database.py:112), *)
(* so a failed call leaves the tables as they were.                            *)

Users == {1, 2}

DbState == [games |-> db_games, books |-> db_books, settings |-> db_settings, seq |-> db_seq]

\* db_models.GameModel / BookModel restricted to the columns the store branches on
GameModel(id, user_id, name, status, created_at, ended_at) ==
    [id |-> id, user_id |-> user_id, name |-> name, status |-> status,
     created_at |-> created_at, ended_at |-> ended_at]

BookModel(id, user_id, title, status, created_at, ended_at) ==
    [id |-> id, user_id |-> user_id, title |-> title, status |-> status,
     created_at |-> created_at, ended_at |-> ended_at]

\* created_at: server_default=func.now(), the time of the database server
func_now == CHOOSE t \in Times : TRUE

\* CheckConstraint('LENGTH(TRIM(name)) > 0') of games and books
name_not_empty(s) == Len(strip(s)) > 0

\* _get_game_count_by_status without `GameModel.user_id == user_id`
get_count_by_status_all_users(T, user_id, status) ==
    Cardinality({i \in DOMAIN T : T[i].status = status})

\* MultiUserStore._get_game_count_by_status / _get_book_count_by_status
get_count_by_status(T, user_id, status) ==
    Cardinality({i \in DOMAIN T : T[i].user_id = user_id /\ T[i].status = status})

\* MultiUserStore._get_user_setting (every user has both rows: create_user
\* writes them, user_store.py:87)
get_user_setting(D, user_id, key) == D.settings[key][user_id]

\* the rows MultiUserStore._check_duplicate_game_name selects
duplicate_game_rows(T, user_id, name, exclude) ==
    {i \in DOMAIN T : /\ T[i].user_id = user_id
                      /\ T[i].name = name
                      /\ T[i].status = ACTIVE
                      /\ T[i].id \notin exclude}

\* MultiUserStore._check_duplicate_game_name: the exception it raises, or None
\* (scalar_one_or_none() raises MultipleResultsFound on more than one row)
check_duplicate_game_name(T, user_id, name, exclude) ==
    LET n == Cardinality(duplicate_game_rows(T, user_id, name, exclude))
    IN  IF n = 0 THEN None
        ELSE IF n = 1 THEN "DuplicateGameError"
        ELSE "MultipleResultsFound"

\* the reads of add_game without the limit check
db_add_game_checks_no_limit(D, user_id, game_data) ==
    IF game_data.status = ACTIVE
    THEN check_duplicate_game_name(D.games, user_id, game_data.name, {})
    ELSE None

\* MultiUserStore.add_game, its reads: the exception of the limit check and
\* of the duplicate check on the rows and the setting it selects, or None
db_add_game_checks(D, user_id, game_data) ==
    LET dup == check_duplicate_game_name(D.games, user_id, game_data.name, {})
    IN  IF game_data.status = ACTIVE
           /\ get_count_by_status(D.games, user_id, ACTIVE) >= get_user_setting(D, user_id, "game_limit")
        THEN "GameLimitExceededError"
        ELSE IF game_data.status = ACTIVE THEN dup
        ELSE None

\* MultiUserStore.add_game, its write: session.add(db_game) and commit()
db_add_game_commit(D, user_id, game_data) ==
    LET id == D.seq.games
        row == GameModel(id, user_id, game_data.name, game_data.status, func_now, None)
        \* nextval() is not rolled back with the failed INSERT
        burnt == [D EXCEPT !.seq.games = @ + 1]
    IN  IF ~name_not_empty(game_data.name)
        THEN Raise(burnt, "IntegrityError")
        ELSE Return([burnt EXCEPT !.games = dict_set(@, id, row)])

\* MultiUserStore.add_game in a session of its own
db_add_game(D, user_id, game_data) ==
    LET e == db_add_game_checks(D, user_id, game_data)
    IN  IF e # None THEN Raise(D, e) ELSE db_add_game_commit(D, user_id, game_data)

\* MultiUserStore.update_game
db_update_game(D, user_id, game_id, updates, now) ==
    IF game_id \notin DOMAIN D.games \/ D.games[game_id].user_id # user_id
    THEN Raise(D, "GameNotFoundError")
    ELSE
    LET db_game == D.games[game_id]
        has_name == "name" \in updates.set
        has_status == "status" \in updates.set
        changes == has_status /\ updates.status # None /\ updates.status # db_game.status
        game_name == IF has_name THEN updates.name ELSE db_game.name
        dup == check_duplicate_game_name(D.games, user_id, game_name, {game_id})
        row == [db_game EXCEPT
                  !.ended_at = IF changes /\ updates.status \in {FINISHED, DROPPED} THEN now
                               ELSE IF changes /\ db_game.status \in {FINISHED, DROPPED} THEN None
                               ELSE @,
                  !.name = IF has_name THEN updates.name ELSE @,
                  !.status = IF has_status THEN updates.status ELSE @]
    IN  IF changes /\ updates.status = ACTIVE
           /\ get_count_by_status(D.games, user_id, ACTIVE) >= get_user_setting(D, user_id, "game_limit")
        THEN Raise(D, "GameLimitExceededError")
        ELSE IF changes /\ updates.status = ACTIVE /\ dup # None
        THEN Raise(D, dup)
        \* name_not_empty, and status is nullable=False
        ELSE IF ~name_not_empty(row.name) \/ row.status = None
        THEN Raise(D, "IntegrityError")
        ELSE Return([D EXCEPT !.games = dict_set(@, game_id, row)])

\* MultiUserStore.delete_game
db_delete_game(D, user_id, game_id) ==
    IF game_id \notin DOMAIN D.games \/ D.games[game_id].user_id # user_id
    THEN Raise(D, "GameNotFoundError")
    ELSE Return([D EXCEPT !.games = dict_del(@, game_id)])

\* MultiUserStore.add_book, its reads: the exception of the limit check, or None
db_add_book_checks(D, user_id, book_data) ==
    IF book_data.status = READING
       /\ get_count_by_status(D.books, user_id, READING) >= get_user_setting(D, user_id, "book_limit")
    THEN "GameTrackerException"
    ELSE None

\* MultiUserStore.add_book, its write: session.add(db_book) and commit()
db_add_book_commit(D, user_id, book_data) ==
    LET id == D.seq.books
        row == BookModel(id, user_id, book_data.title, book_data.status, func_now, None)
        burnt == [D EXCEPT !.seq.books = @ + 1]
    IN  IF ~name_not_empty(book_data.title)
        THEN Raise(burnt, "IntegrityError")
        ELSE Return([burnt EXCEPT !.books = dict_set(@, id, row)])

\* MultiUserStore.add_book in a session of its own
db_add_book(D, user_id, book_data) ==
    LET e == db_add_book_checks(D, user_id, book_data)
    IN  IF e # None THEN Raise(D, e) ELSE db_add_book_commit(D, user_id, book_data)

\* MultiUserStore.update_book
db_update_book(D, user_id, book_id, updates, now) ==
    IF book_id \notin DOMAIN D.books \/ D.books[book_id].user_id # user_id
    THEN Raise(D, "GameTrackerException")
    ELSE
    LET db_book == D.books[book_id]
        has_title == "title" \in updates.set
        has_status == "status" \in updates.set
        changes == has_status /\ updates.status # None /\ updates.status # db_book.status
        row == [db_book EXCEPT
                  !.ended_at = IF changes /\ updates.status \in {FINISHED, DROPPED} THEN now
                               ELSE IF changes /\ db_book.status \in {FINISHED, DROPPED} THEN None
                               ELSE @,
                  !.title = IF has_title THEN updates.title ELSE @,
                  !.status = IF has_status THEN updates.status ELSE @]
    IN  IF changes /\ updates.status = READING
           /\ get_count_by_status(D.books, user_id, READING) >= get_user_setting(D, user_id, "book_limit")
        THEN Raise(D, "GameTrackerException")
        ELSE IF ~name_not_empty(row.title) \/ row.status = None
        THEN Raise(D, "IntegrityError")
        ELSE Return([D EXCEPT !.books = dict_set(@, book_id, row)])

\* MultiUserStore.delete_book
db_delete_book(D, user_id, book_id) ==
    IF book_id \notin DOMAIN D.books \/ D.books[book_id].user_id # user_id
    THEN Raise(D, "GameTrackerException")
    ELSE Return([D EXCEPT !.books = dict_del(@, book_id)])

\* MultiUserStore.get_all_games: the rows selected for the user, by status
db_get_all_games(D, user_id) ==
    [s \in GameStatus |->
        {D.games[i] : i \in {j \in DOMAIN D.games :
                                D.games[j].user_id = user_id /\ D.games[j].status = s}}]

\* MultiUserStore.get_all_books: the rows selected for the user, by status
db_get_all_books(D, user_id) ==
    [s \in BookStatus |->
        {D.books[i] : i \in {j \in DOMAIN D.books :
                                D.books[j].user_id = user_id /\ D.books[j].status = s}}]


\* MultiUserStore.get_active_count
db_get_active_count(D, user_id) ==
    [count |-> get_count_by_status(D.games, user_id, ACTIVE),
     limit |-> get_user_setting(D, user_id, "game_limit"),
     paused_count |-> get_count_by_status(D.games, user_id, PAUSED),
     casual_count |-> get_count_by_status(D.games, user_id, CASUAL),
     planned_count |-> get_count_by_status(D.games, user_id, PLANNED)]


\* MultiUserStore.get_reading_count
db_get_reading_count(D, user_id) ==
    [count |-> get_count_by_status(D.books, user_id, READING),
     limit |-> get_user_setting(D, user_id, "book_limit")]


\* MultiUserStore._update_user_setting (update_game_limit / update_book_limit)
update_user_setting(D, user_id, key, value) ==
    Return([D EXCEPT !.settings[key][user_id] = value])

----------------------------------------------------------------------------
(* Inputs *)

\* Statuses requested by the calls of the model: the limited status, one
\* unrestricted status and one terminal status.  CASUAL and PLANNED take the
\* branches of PAUSED, and DROPPED those of FINISHED, in every operation of
\* GameStore and MultiUserStore (store.py:81, 184, 187; user_store.py:202).
GameStatusInputs == {ACTIVE, PAUSED, FINISHED}

\* the same for books (book_store.py:103, 147, 150; user_store.py:330)
BookStatusInputs == {READING, PAUSED, FINISHED}

GameCreateInputs ==
    {[name |-> n, status |-> s, set |-> {"name", "status"}] :
        n \in TitleInputs, s \in GameStatusInputs}

GameUpdateInputs ==
    {[name |-> n, status |-> s, set |-> {"name", "status"}] :
        n \in TitleInputs, s \in GameStatusInputs}
    \cup {[name |-> n, status |-> None, set |-> {"name"}] : n \in TitleInputs}
    \cup {[name |-> <<>>, status |-> s, set |-> {"status"}] : s \in GameStatusInputs}

BookCreateInputs ==
    {[title |-> n, status |-> s, set |-> {"title", "status"}] :
        n \in TitleInputs, s \in BookStatusInputs}

BookUpdateInputs ==
    {[title |-> n, status |-> s, set |-> {"title", "status"}] :
        n \in TitleInputs, s \in BookStatusInputs}
    \cup {[title |-> n, status |-> None, set |-> {"title"}] : n \in TitleInputs}
    \cup {[title |-> <<>>, status |-> s, set |-> {"status"}] : s \in BookStatusInputs}

\* GameStore.update_limit: below the range, in the range, above the ceiling
LimitInputs == {0, 1, 6}

\* BookStore.update_limit: below the range, in the range (the default too)
BookLimitInputs == {0, 1, 3}

\* MultiUserStore.update_*_limit: values LimitUpdate accepts (models.py:39)
DbLimitInputs == {1, 3}

\* the concurrent requests
Threads == 1..NumThreads

\* what a request carries while it is not between a check and a write
NoRequest == [op |-> None]

\* what `last` records of a call: the operation and the exception it raised
\* (None when it returned)
Call(op, exc) == [op |-> op, exc |-> exc]

----------------------------------------------------------------------------
(* GameStore actions: one whole call each, made while holding _lock *)

\* the upload made by the caller itself, before _save_data returns
sync_to_github_inline(data) == [pushes |-> pushes, github_file |-> data]

\* GameStore._sync_to_github_async: a daemon thread is started with the data
\* and the caller goes on.  While MaxPushes threads are running, a further
\* thread is taken to fail at once (upload_to_github returns False).
sync_to_github_async(data) ==
    [pushes |-> IF Cardinality(pushes) < MaxPushes THEN pushes \cup {data} ELSE pushes,
     github_file |-> github_file]

\* the end of GameStore._save_data: the upload, if sync is enabled
save_data_sync(r) ==
    IF r.saved /\ sync_enabled
    THEN sync_to_github_async(save_data(r.store))
    ELSE [pushes |-> pushes, github_file |-> github_file]

\* the effect of a GameStore call with outcome r on the store and its file
GameStoreStep(r) ==
    /\ games' = r.store.games
    /\ next_id' = r.store.next_id
    /\ limit' = r.store.limit
    /\ data_file' = IF r.saved THEN save_data(r.store) ELSE data_file
    /\ pushes' = save_data_sync(r).pushes
    /\ github_file' = save_data_sync(r).github_file
    /\ UNCHANGED sync_enabled

AddGame ==
    \E game_data \in GameCreateInputs, now \in Times :
        LET r == add_game(GameStoreState, game_data, now) IN
        /\ target = "GameStore"
        /\ next_id <= MaxId
        /\ GameStoreStep(r)
        /\ issued' = IF r.exc = None THEN issued \cup {next_id} ELSE issued
        /\ last' = Call("add_game", r.exc)
        /\ UNCHANGED <<bookVars, dbVars, target, concVars>>

UpdateGame ==
    \E game_id \in 1..MaxId, updates \in GameUpdateInputs, now \in Times :
        LET r == update_game(GameStoreState, game_id, updates, now) IN
        /\ target = "GameStore"
        /\ GameStoreStep(r)
        /\ last' = Call("update_game", r.exc)
        /\ UNCHANGED <<issued, bookVars, dbVars, target, concVars>>

DeleteGame ==
    \E game_id \in 1..MaxId :
        LET r == delete_game(GameStoreState, game_id) IN
        /\ target = "GameStore"
        /\ GameStoreStep(r)
        /\ last' = Call("delete_game", r.exc)
        /\ UNCHANGED <<issued, bookVars, dbVars, target, concVars>>

UpdateLimit ==
    \E new_limit \in LimitInputs :
        LET r == update_limit(GameStoreState, new_limit) IN
        /\ target = "GameStore"
        /\ GameStoreStep(r)
        /\ last' = Call("update_limit", r.exc)
        /\ UNCHANGED <<issued, bookVars, dbVars, target, concVars>>

\* the process restarts: its upload threads (daemon threads) end with it, and
\* a new GameStore is constructed over the same file
RestartGameStore ==
    \E f \in startup_files :
        /\ target = "GameStore"
        /\ data_file' = f
        /\ games' = game_store_construct(f).games
        /\ next_id' = game_store_construct(f).next_id
        /\ limit' = game_store_construct(f).limit
        /\ pushes' = {}
        /\ last' = Call("restart", None)
        /\ UNCHANGED <<issued, sync_enabled, github_file, bookVars, dbVars, target, concVars>>

----------------------------------------------------------------------------
(* BookStore actions: one whole call each, made while holding _lock *)

\* the effect of a BookStore call with outcome r on the store and its file
BookStoreStep(r) ==
    /\ books' = r.store.books
    /\ book_next_id' = r.store.next_id
    /\ book_limit' = r.store.limit
    /\ book_file' = IF r.saved THEN book_save_data(r.store) ELSE book_file

AddBook ==
    \E book_data \in BookCreateInputs, now \in Times :
        LET r == add_book(BookStoreState, book_data, now) IN
        /\ target = "BookStore"
        /\ book_next_id <= MaxId
        /\ BookStoreStep(r)
        /\ last' = Call("add_book", r.exc)
        /\ UNCHANGED <<gameVars, dbVars, target, concVars>>

UpdateBook ==
    \E book_id \in 1..MaxId, updates \in BookUpdateInputs, now \in Times :
        LET r == update_book(BookStoreState, book_id, updates, now) IN
        /\ target = "BookStore"
        /\ BookStoreStep(r)
        /\ last' = Call("update_book", r.exc)
        /\ UNCHANGED <<gameVars, dbVars, target, concVars>>

DeleteBook ==
    \E book_id \in 1..MaxId :
        LET r == delete_book(BookStoreState, book_id) IN
        /\ target = "BookStore"
        /\ BookStoreStep(r)
        /\ last' = Call("delete_book", r.exc)
        /\ UNCHANGED <<gameVars, dbVars, target, concVars>>

UpdateBookLimit ==
    \E new_limit \in BookLimitInputs :
        LET r == book_update_limit(BookStoreState, new_limit) IN
        /\ target = "BookStore"
        /\ BookStoreStep(r)
        /\ last' = Call("update_limit", r.exc)
        /\ UNCHANGED <<gameVars, dbVars, target, concVars>>

\* the process restarts: a new BookStore is constructed over the same file
RestartBookStore ==
    /\ target = "BookStore"
    /\ books' = book_store_init.store.books
    /\ book_next_id' = book_store_init.store.next_id
    /\ book_limit' = book_store_init.store.limit
    /\ book_file' = book_store_init.file
    /\ last' = Call("restart", None)
    /\ UNCHANGED <<gameVars, dbVars, target, concVars>>

----------------------------------------------------------------------------
(* MultiUserStore actions: one whole call each, alone in its session *)

\* the effect of a MultiUserStore call with outcome r on the tables
DbStep(r) ==
    /\ db_games' = r.store.games
    /\ db_books' = r.store.books
    /\ db_settings' = r.store.settings
    /\ db_seq' = r.store.seq

DbAddGame ==
    \E user_id \in Users, game_data \in GameCreateInputs :
        LET r == db_add_game(DbState, user_id, game_data) IN
        /\ target = "MultiUserStore.games"
        /\ db_seq.games <= MaxId
        /\ DbStep(r)
        /\ last' = Call("add_game", r.exc)
        /\ UNCHANGED <<gameVars, bookVars, target, concVars>>

DbUpdateGame ==
    \E user_id \in Users, game_id \in 1..MaxId, updates \in GameUpdateInputs, now \in Times :
        LET r == db_update_game(DbState, user_id, game_id, updates, now) IN
        /\ target = "MultiUserStore.games"
        /\ DbStep(r)
        /\ last' = Call("update_game", r.exc)
        /\ UNCHANGED <<gameVars, bookVars, target, concVars>>

DbDeleteGame ==
    \E user_id \in Users, game_id \in 1..MaxId :
        LET r == db_delete_game(DbState, user_id, game_id) IN
        /\ target = "MultiUserStore.games"
        /\ DbStep(r)
        /\ last' = Call("delete_game", r.exc)
        /\ UNCHANGED <<gameVars, bookVars, target, concVars>>

DbUpdateGameLimit ==
    \E user_id \in Users, new_limit \in DbLimitInputs :
        LET r == update_user_setting(DbState, user_id, "game_limit", new_limit) IN
        /\ target = "MultiUserStore.games"
        /\ DbStep(r)
        /\ last' = Call("update_limit", r.exc)
        /\ UNCHANGED <<gameVars, bookVars, target, concVars>>

DbAddBook ==
    \E user_id \in Users, book_data \in BookCreateInputs :
        LET r == db_add_book(DbState, user_id, book_data) IN
        /\ target = "MultiUserStore.books"
        /\ db_seq.books <= MaxId
        /\ DbStep(r)
        /\ last' = Call("add_book", r.exc)
        /\ UNCHANGED <<gameVars, bookVars, target, concVars>>

DbUpdateBook ==
    \E user_id \in Users, book_id \in 1..MaxId, updates \in BookUpdateInputs, now \in Times :
        LET r == db_update_book(DbState, user_id, book_id, updates, now) IN
        /\ target = "MultiUserStore.books"
        /\ DbStep(r)
        /\ last' = Call("update_book", r.exc)
        /\ UNCHANGED <<gameVars, bookVars, target, concVars>>

DbDeleteBook ==
    \E user_id \in Users, book_id \in 1..MaxId :
        LET r == db_delete_book(DbState, user_id, book_id) IN
        /\ target = "MultiUserStore.books"
        /\ DbStep(r)
        /\ last' = Call("delete_book", r.exc)
        /\ UNCHANGED <<gameVars, bookVars, target, concVars>>

DbUpdateBookLimit ==
    \E user_id \in Users, new_limit \in DbLimitInputs :
        LET r == update_user_setting(DbState, user_id, "book_limit", new_limit) IN
        /\ target = "MultiUserStore.books"
        /\ DbStep(r)
        /\ last' = Call("update_limit", r.exc)
        /\ UNCHANGED <<gameVars, bookVars, target, concVars>>

----------------------------------------------------------------------------
(* Specification: the three stores share no state, so a behaviour calls one *)
(* of them (for MultiUserStore: one of its two tables) from its state after  *)
(* construction.                                                             *)

Targets == {"GameStore", "BookStore", "MultiUserStore.games", "MultiUserStore.books"}

\* GameStore() constructed where no games_data.json exists and
\* ENABLE_GITHUB_SYNC is not set
InitGameStore ==
    /\ games = EmptyDict
    /\ next_id = 1
    /\ limit = 5
    /\ data_file = NoFile
    /\ issued = {}
    /\ sync_enabled = FALSE
    /\ github_file = NoFile
    /\ pushes = {}

\* BookStore() constructed where no books_data.json exists: it writes one
InitBookStore ==
    /\ books = EmptyDict
    /\ book_next_id = 1
    /\ book_limit = 3
    /\ book_file = book_save_data([books |-> EmptyDict, next_id |-> 1, limit |-> 3])

\* empty tables, and two users as create_user leaves them
InitDb ==
    /\ db_games = EmptyDict
    /\ db_books = EmptyDict
    /\ db_settings = [key \in {"game_limit", "book_limit"} |-> [u \in Users |-> 3]]
    /\ db_seq = [games |-> 1, books |-> 1]

\* no request is being served
InitRequests ==
    /\ lock = {}
    /\ pc = [t \in Threads |-> "idle"]
    /\ req = [t \in Threads |-> NoRequest]

Init ==
    /\ InitGameStore
    /\ InitBookStore
    /\ InitDb
    /\ InitRequests
    /\ target \in Targets
    /\ last = Call("init", None)

Next ==
    \/ AddGame \/ UpdateGame \/ DeleteGame \/ UpdateLimit \/ RestartGameStore
    \/ AddBook \/ UpdateBook \/ DeleteBook \/ UpdateBookLimit \/ RestartBookStore
    \/ DbAddGame \/ DbUpdateGame \/ DbDeleteGame \/ DbUpdateGameLimit
    \/ DbAddBook \/ DbUpdateBook \/ DbDeleteBook \/ DbUpdateBookLimit

Spec == Init /\ [][Next]_vars


----------------------------------------------------------------------------
(* Concurrent requests on a JSON store.  A call is `with self._lock:` around *)
(* its checks and its writes; here the body is taken in two steps, the       *)
(* checks (which read the store) and the writes with _save_data(), so that   *)
(* other requests may run between them if the lock lets them.                *)

JsonTargets == {"GameStore", "BookStore"}

\* titles and statuses of the concurrent calls: two titles, the limited status
\* and one status outside the limit
RaceTitles == { <<"F">>, <<"G">> }
RaceGameCreateInputs == {d \in GameCreateInputs : d.name \in RaceTitles /\ d.status \in {ACTIVE, PAUSED}}
RaceGameUpdateInputs == {u \in GameUpdateInputs : u.set = {"status"} /\ u.status \in {ACTIVE, PAUSED}}
RaceBookCreateInputs == {d \in BookCreateInputs : d.title \in RaceTitles /\ d.status \in {READING, PAUSED}}
RaceBookUpdateInputs == {u \in BookUpdateInputs : u.set = {"status"} /\ u.status \in {READING, PAUSED}}

NoItem == Game(0, <<>>, None, None, None)

\* the calls a request may make on a GameStore in state S, each with the
\* outcome its checks give on S
game_calls(S) ==
    {[op |-> "add_game", id |-> S.next_id, r |-> add_game(S, d, now)] :
        d \in RaceGameCreateInputs, now \in Times}
    \cup {[op |-> "update_game", id |-> id, r |-> update_game(S, id, u, now)] :
        id \in 1..MaxId, u \in RaceGameUpdateInputs, now \in Times}
    \cup {[op |-> "delete_game", id |-> id, r |-> delete_game(S, id)] : id \in 1..MaxId}
    \cup {[op |-> "update_limit", id |-> 0, r |-> update_limit(S, n)] : n \in LimitInputs}

book_calls(S) ==
    {[op |-> "add_book", id |-> S.next_id, r |-> add_book(S, d, now)] :
        d \in RaceBookCreateInputs, now \in Times}
    \cup {[op |-> "update_book", id |-> id, r |-> update_book(S, id, u, now)] :
        id \in 1..MaxId, u \in RaceBookUpdateInputs, now \in Times}
    \cup {[op |-> "delete_book", id |-> id, r |-> delete_book(S, id)] : id \in 1..MaxId}
    \cup {[op |-> "update_limit", id |-> 0, r |-> book_update_limit(S, n)] : n \in BookLimitInputs}

\* what call c, whose checks passed on S, goes on to write: the item it built
\* or changed, the limit, and whether it adds an item to the limited status
game_request(S, c) ==
    [op |-> c.op, id |-> c.id,
     item |-> IF c.op \in {"add_game", "update_game"} THEN c.r.store.games[c.id] ELSE NoItem,
     value |-> c.r.store.limit,
     raises |-> Cardinality(active_games(c.r.store.games)) > Cardinality(active_games(S.games))]

book_request(S, c) ==
    [op |-> c.op, id |-> c.id,
     item |-> IF c.op \in {"add_book", "update_book"} THEN c.r.store.books[c.id] ELSE NoItem,
     value |-> c.r.store.limit,
     raises |-> reading_count(c.r.store.books, {}) > reading_count(S.books, {})]

\* the writes of request q on the store as it is now
game_write(S, q) ==
    CASE q.op = "add_game" ->
            [S EXCEPT !.games = dict_set(@, S.next_id, q.item), !.next_id = @ + 1]
      [] q.op = "update_game" ->
            IF q.id \in DOMAIN S.games THEN [S EXCEPT !.games = dict_set(@, q.id, q.item)] ELSE S
      [] q.op = "delete_game" -> [S EXCEPT !.games = dict_del(@, q.id)]
      [] OTHER -> [S EXCEPT !.limit = q.value]

book_write(S, q) ==
    CASE q.op = "add_book" ->
            [S EXCEPT !.books = dict_set(@, S.next_id, q.item), !.next_id = @ + 1]
      [] q.op = "update_book" ->
            IF q.id \in DOMAIN S.books THEN [S EXCEPT !.books = dict_set(@, q.id, q.item)] ELSE S
      [] q.op = "delete_book" -> [S EXCEPT !.books = dict_del(@, q.id)]
      [] OTHER -> [S EXCEPT !.limit = q.value]

\* a request arrives and calls an operation of the store
LockCall(t) ==
    /\ target \in JsonTargets
    /\ pc[t] = "idle"
    /\ pc' = [pc EXCEPT ![t] = "acquire"]
    /\ UNCHANGED <<gameVars, bookVars, dbVars, target, last, lock, req>>

\* `with self._lock:` entered without waiting for the lock to be free
LockAcquireNoWait(t) ==
    /\ target \in JsonTargets
    /\ pc[t] = "acquire"
    /\ lock' = lock \cup {t}
    /\ pc' = [pc EXCEPT ![t] = "check"]
    /\ UNCHANGED <<gameVars, bookVars, dbVars, target, last, req>>

\* `with self._lock:` is entered: the request waits until the lock is free
LockAcquire(t) ==
    /\ target \in JsonTargets
    /\ pc[t] = "acquire"
    /\ lock = {}
    /\ lock' = {t}
    /\ pc' = [pc EXCEPT ![t] = "check"]
    /\ UNCHANGED <<gameVars, bookVars, dbVars, target, last, req>>

\* the checks of a GameStore call.  A call that raises leaves the assignments
\* it made before the raise and goes on to release the lock.
GameStoreCheck(t) ==
    /\ target = "GameStore"
    /\ pc[t] = "check"
    /\ \E c \in game_calls(GameStoreState) :
        /\ c.op = "add_game" => next_id <= MaxId
        /\ IF c.r.exc # None
           THEN /\ games' = c.r.store.games
                /\ pc' = [pc EXCEPT ![t] = "release"]
                /\ last' = Call(c.op, c.r.exc)
                /\ UNCHANGED req
           ELSE /\ req' = [req EXCEPT ![t] = game_request(GameStoreState, c)]
                /\ pc' = [pc EXCEPT ![t] = "write"]
                /\ UNCHANGED <<games, last>>
    /\ UNCHANGED <<next_id, limit, data_file, issued, sync_enabled, github_file, pushes,
                   bookVars, dbVars, target, lock>>

\* the writes of a GameStore call whose checks passed, and _save_data()
GameStoreWrite(t) ==
    LET S == game_write(GameStoreState, req[t]) IN
    /\ target = "GameStore"
    /\ pc[t] = "write"
    /\ games' = S.games
    /\ next_id' = S.next_id
    /\ limit' = S.limit
    /\ data_file' = save_data(S)
    /\ pushes' = save_data_sync(Return(S)).pushes
    /\ github_file' = save_data_sync(Return(S)).github_file
    /\ UNCHANGED sync_enabled
    /\ issued' = IF req[t].op = "add_game" THEN issued \cup {next_id} ELSE issued
    /\ last' = Call(req[t].op, None)
    /\ pc' = [pc EXCEPT ![t] = "release"]
    /\ req' = [req EXCEPT ![t] = NoRequest]
    /\ UNCHANGED <<bookVars, dbVars, target, lock>>

\* the checks of a BookStore call
BookStoreCheck(t) ==
    /\ target = "BookStore"
    /\ pc[t] = "check"
    /\ \E c \in book_calls(BookStoreState) :
        /\ c.op = "add_book" => book_next_id <= MaxId
        /\ IF c.r.exc # None
           THEN /\ books' = c.r.store.books
                /\ pc' = [pc EXCEPT ![t] = "release"]
                /\ last' = Call(c.op, c.r.exc)
                /\ UNCHANGED req
           ELSE /\ req' = [req EXCEPT ![t] = book_request(BookStoreState, c)]
                /\ pc' = [pc EXCEPT ![t] = "write"]
                /\ UNCHANGED <<books, last>>
    /\ UNCHANGED <<book_next_id, book_limit, book_file, gameVars, dbVars, target, lock>>

\* the writes of a BookStore call whose checks passed, and _save_data()
BookStoreWrite(t) ==
    LET S == book_write(BookStoreState, req[t]) IN
    /\ target = "BookStore"
    /\ pc[t] = "write"
    /\ books' = S.books
    /\ book_next_id' = S.next_id
    /\ book_limit' = S.limit
    /\ book_file' = book_save_data(S)
    /\ last' = Call(req[t].op, None)
    /\ pc' = [pc EXCEPT ![t] = "release"]
    /\ req' = [req EXCEPT ![t] = NoRequest]
    /\ UNCHANGED <<gameVars, dbVars, target, lock>>

\* the lock written as acquire() ... release() without try/finally: a call
\* that raised leaves without releasing it
LockReleaseSkippedOnRaise(t) ==
    /\ target \in JsonTargets
    /\ pc[t] = "release"
    /\ lock' = IF last.exc # None THEN lock ELSE lock \ {t}
    /\ pc' = [pc EXCEPT ![t] = "idle"]
    /\ UNCHANGED <<gameVars, bookVars, dbVars, target, last, req>>


\* the `with` block is left, by return or by raise: the lock is released
LockRelease(t) ==
    /\ target \in JsonTargets
    /\ pc[t] = "release"
    /\ lock' = lock \ {t}
    /\ pc' = [pc EXCEPT ![t] = "idle"]
    /\ UNCHANGED <<gameVars, bookVars, dbVars, target, last, req>>

InitLock == Init /\ target \in JsonTargets

NextLock ==
    \E t \in Threads :
        \/ LockCall(t) \/ LockAcquire(t) \/ LockRelease(t)
        \/ GameStoreCheck(t) \/ GameStoreWrite(t)
        \/ BookStoreCheck(t) \/ BookStoreWrite(t)

SpecLock == InitLock /\ [][NextLock]_vars


----------------------------------------------------------------------------
(* Concurrent add-item requests on MultiUserStore.  Each call runs in a      *)
(* session of its own and takes no lock: its SELECTs read the rows committed *)
(* so far, and its INSERT is committed later.                                *)

DbTargets == {"MultiUserStore.games", "MultiUserStore.books"}

\* add_game: the count, the limit and the duplicate are selected
DbAddGameRead(t) ==
    /\ target = "MultiUserStore.games"
    /\ pc[t] = "idle"
    /\ db_seq.games <= MaxId
    /\ \E user_id \in Users, game_data \in RaceGameCreateInputs :
        LET e == db_add_game_checks(DbState, user_id, game_data) IN
        IF e # None
        THEN /\ last' = Call("add_game", e)
             /\ UNCHANGED <<pc, req>>
        ELSE /\ pc' = [pc EXCEPT ![t] = "commit"]
             /\ req' = [req EXCEPT ![t] =
                    [op |-> "add_game", user_id |-> user_id, data |-> game_data,
                     seen_count |-> get_count_by_status(db_games, user_id, ACTIVE),
                     seen_limit |-> get_user_setting(DbState, user_id, "game_limit")]]
             /\ UNCHANGED last
    /\ UNCHANGED <<gameVars, bookVars, dbVars, target, lock>>

\* add_game: session.add(db_game) and commit()
DbAddGameCommit(t) ==
    LET r == db_add_game_commit(DbState, req[t].user_id, req[t].data) IN
    /\ target = "MultiUserStore.games"
    /\ pc[t] = "commit"
    /\ DbStep(r)
    /\ last' = Call("add_game", r.exc)
    /\ pc' = [pc EXCEPT ![t] = "idle"]
    /\ req' = [req EXCEPT ![t] = NoRequest]
    /\ UNCHANGED <<gameVars, bookVars, target, lock>>

\* add_book: the count and the limit are selected
DbAddBookRead(t) ==
    /\ target = "MultiUserStore.books"
    /\ pc[t] = "idle"
    /\ db_seq.books <= MaxId
    /\ \E user_id \in Users, book_data \in RaceBookCreateInputs :
        LET e == db_add_book_checks(DbState, user_id, book_data) IN
        IF e # None
        THEN /\ last' = Call("add_book", e)
             /\ UNCHANGED <<pc, req>>
        ELSE /\ pc' = [pc EXCEPT ![t] = "commit"]
             /\ req' = [req EXCEPT ![t] =
                    [op |-> "add_book", user_id |-> user_id, data |-> book_data,
                     seen_count |-> get_count_by_status(db_books, user_id, READING),
                     seen_limit |-> get_user_setting(DbState, user_id, "book_limit")]]
             /\ UNCHANGED last
    /\ UNCHANGED <<gameVars, bookVars, dbVars, target, lock>>

\* add_book: session.add(db_book) and commit()
DbAddBookCommit(t) ==
    LET r == db_add_book_commit(DbState, req[t].user_id, req[t].data) IN
    /\ target = "MultiUserStore.books"
    /\ pc[t] = "commit"
    /\ DbStep(r)
    /\ last' = Call("add_book", r.exc)
    /\ pc' = [pc EXCEPT ![t] = "idle"]
    /\ req' = [req EXCEPT ![t] = NoRequest]
    /\ UNCHANGED <<gameVars, bookVars, target, lock>>

\* empty tables; the users have set their limits (update_game_limit,
\* update_book_limit) before the concurrent requests arrive
InitDbRace ==
    /\ InitGameStore
    /\ InitBookStore
    /\ InitRequests
    /\ db_games = EmptyDict
    /\ db_books = EmptyDict
    /\ db_seq = [games |-> 1, books |-> 1]
    /\ \E l \in DbLimitInputs :
        db_settings = [key \in {"game_limit", "book_limit"} |-> [u \in Users |-> l]]
    /\ target \in DbTargets
    /\ last = Call("init", None)

NextDbRace ==
    \E t \in Threads :
        \/ DbAddGameRead(t) \/ DbAddGameCommit(t)
        \/ DbAddBookRead(t) \/ DbAddBookCommit(t)

SpecDbRace == InitDbRace /\ [][NextDbRace]_vars

----------------------------------------------------------------------------
(* A JSON store whose file cannot be written: open() or the dump raises    *)
(* inside _save_data() and the file stays as it was.                       *)

\* GameStore._save_data: the except clause logs the error and returns
save_data_swallows(r) == [r EXCEPT !.saved = FALSE]

\* BookStore._save_data: the except clause logs the error and re-raises it
book_save_data_raises(r) ==
    IF r.saved THEN [store |-> r.store, exc |-> "OSError", saved |-> FALSE] ELSE r

\* BookStore.add_book on a file that cannot be written
add_book_save_fails(S, book_data, now) == book_save_data_raises(add_book(S, book_data, now))

AddGameSaveFails ==
    \E game_data \in GameCreateInputs, now \in Times :
        LET r == save_data_swallows(add_game(GameStoreState, game_data, now)) IN
        /\ target = "GameStore"
        /\ next_id <= MaxId
        /\ GameStoreStep(r)
        /\ issued' = IF r.exc = None THEN issued \cup {next_id} ELSE issued
        /\ last' = Call("add_game", r.exc)
        /\ UNCHANGED <<bookVars, dbVars, target, concVars>>

AddBookSaveFails ==
    \E book_data \in BookCreateInputs, now \in Times :
        LET r == add_book_save_fails(BookStoreState, book_data, now) IN
        /\ target = "BookStore"
        /\ book_next_id <= MaxId
        /\ BookStoreStep(r)
        /\ last' = Call("add_book", r.exc)
        /\ UNCHANGED <<gameVars, dbVars, target, concVars>>

InitIO == Init /\ target \in JsonTargets

NextIO ==
    \/ AddGame \/ UpdateGame \/ DeleteGame \/ UpdateLimit \/ RestartGameStore
    \/ AddBook \/ UpdateBook \/ DeleteBook \/ UpdateBookLimit \/ RestartBookStore
    \/ AddGameSaveFails \/ AddBookSaveFails

SpecIO == InitIO /\ [][NextIO]_vars


----------------------------------------------------------------------------
(* The HTTP boundary (app.py): the status a request is answered with, given *)
(* the exception its store call raised (None: it returned).                 *)

\* exceptions.py: the exceptions that define to_http_exception()
HasToHttpException == {"GameNotFoundError", "GameLimitExceededError", "DuplicateGameError"}

\* to_http_exception(): the status_code of the HTTPException it builds
to_http_exception(e) == IF e = "GameNotFoundError" THEN 404 ELSE 400

\* /api/games endpoints: `except GameTrackerException as e: raise
\* e.to_http_exception() if hasattr(e, 'to_http_exception') else
\* HTTPException(status_code=500)`; any other exception is answered with 500
game_endpoint(exc) ==
    IF exc = None THEN 200
    ELSE IF exc \in HasToHttpException THEN to_http_exception(exc)
    ELSE 500

\* /api/books endpoints: `except Exception as e: raise
\* HTTPException(status_code=400, detail=str(e))`
book_endpoint(exc) == IF exc = None THEN 200 ELSE 400

GameTargets == {"GameStore", "MultiUserStore.games"}

\* the status answered to the request whose store call was `last`
response_status ==
    IF target \in GameTargets THEN game_endpoint(last.exc) ELSE book_endpoint(last.exc)


----------------------------------------------------------------------------
(* Authentication (auth.py) and the item endpoints behind it               *)

\* token_data.user_id of a token without "sub"; also the id of no user
NoSubject == 0

\* rows of table "users": users 1 and 2 are active, user 3 was disabled
UserRows == [u \in Users \cup {3} |-> [id |-> u, is_active |-> u \in Users]]

\* get_user_by_id() returning None
NoUser == [id |-> NoSubject, is_active |-> FALSE]

\* Authorization headers: none; a bearer token with a bad signature; an
\* expired one; validly signed, unexpired tokens of user 1, of user 3 and of
\* a user id that no row has
NoCredentials == [present |-> FALSE, signed |-> FALSE, expired |-> FALSE, sub |-> NoSubject]
Credentials ==
    {NoCredentials}
    \cup {[present |-> TRUE, signed |-> FALSE, expired |-> FALSE, sub |-> 1],
          [present |-> TRUE, signed |-> TRUE, expired |-> TRUE, sub |-> 1]}
    \cup {[present |-> TRUE, signed |-> TRUE, expired |-> FALSE, sub |-> u] : u \in {1, 3, 4}}

\* store_adapter.py: GameStoreAdapter.use_database
use_database == target \in DbTargets

\* verify_token: jwt.decode raises JWTError on a bad signature or an expired
\* token; the result is token_data.user_id, NoSubject standing for None
verify_token(token) ==
    IF token.signed /\ ~token.expired THEN token.sub ELSE NoSubject

\* get_user_by_id, its result
get_user_by_id(user_id) ==
    IF use_database
    THEN IF user_id \in DOMAIN UserRows THEN UserRows[user_id] ELSE NoUser
    ELSE IF user_id = 1 THEN [id |-> 1, is_active |-> TRUE] ELSE NoUser

\* get_user_by_id begins with `store_adapter = GameStoreAdapter()`: in JSON
\* mode that constructs a GameStore, whose __init__ runs
\* _sync_from_github_on_startup on games_data.json
get_user_by_id_files == IF use_database THEN {data_file} ELSE startup_files

\* get_current_user followed by get_current_active_user: the status of the
\* HTTPException raised (200: none) and the user handed to the endpoint
get_current_active_user(credentials) ==
    LET user_id == IF credentials.present THEN verify_token(credentials) ELSE NoSubject
        user == IF user_id = NoSubject THEN NoUser ELSE get_user_by_id(user_id)
    IN  IF ~credentials.present \/ user_id = NoSubject \/ user = NoUser
        THEN [status |-> 401, user |-> NoUser]
        ELSE IF ~user.is_active THEN [status |-> 403, user |-> NoUser]
        ELSE [status |-> 200, user |-> user]

\* games_data.json after the dependencies of a request have run
files_after_auth(credentials) ==
    IF credentials.present /\ verify_token(credentials) # NoSubject
    THEN get_user_by_id_files ELSE {data_file}

\* POST /api/settings/limit and /api/books/settings/limit: the body returned
\* once the store call has returned, {"message": ..., "new_limit": limit_data.limit}
update_limit_response(limit_data) == [new_limit |-> limit_data]

\* LimitUpdate.limit: Field(ge=1, le=20)
LimitUpdateValues == 1..20


\* request bodies of the endpoints
HttpGameCreateInputs == {d \in GameCreateInputs : d.name = <<"G">> /\ d.status = ACTIVE}
HttpGameUpdateInputs == {u \in GameUpdateInputs : u.set = {"status"} /\ u.status = PAUSED}
HttpBookCreateInputs == {d \in BookCreateInputs : d.title = <<"G">> /\ d.status = READING}
HttpBookUpdateInputs == {u \in BookUpdateInputs : u.set = {"status"} /\ u.status = PAUSED}
\* LimitUpdate.limit: Field(ge=1, le=20); the limits requested are those
\* that MaxId items can reach
HttpLimitInputs == {n \in LimitInputs : 1 <= n /\ n <= 20 /\ n <= MaxId}

\* a store call that reads only
Read(S) == [store |-> S, exc |-> None, saved |-> FALSE]

\* the store call of each /api/games endpoint in JSON mode, with its outcome
http_game_calls(S) ==
    {[op |-> "get_all_games", r |-> Read(S)], [op |-> "get_active_count", r |-> Read(S)]}
    \cup {[op |-> "add_game", r |-> add_game(S, d, now)] : d \in HttpGameCreateInputs, now \in Times}
    \cup {[op |-> "update_game", r |-> update_game(S, id, u, now)] :
            id \in 1..MaxId, u \in HttpGameUpdateInputs, now \in Times}
    \cup {[op |-> "delete_game", r |-> delete_game(S, id)] : id \in 1..MaxId}
    \cup {[op |-> "update_limit", r |-> update_limit(S, n)] : n \in HttpLimitInputs}

\* the store call of each /api/books endpoint in JSON mode
http_book_calls(S) ==
    {[op |-> "get_all_books", r |-> Read(S)], [op |-> "get_reading_count", r |-> Read(S)]}
    \cup {[op |-> "add_book", r |-> add_book(S, d, now)] : d \in HttpBookCreateInputs, now \in Times}
    \cup {[op |-> "update_book", r |-> update_book(S, id, u, now)] :
            id \in 1..MaxId, u \in HttpBookUpdateInputs, now \in Times}
    \cup {[op |-> "delete_book", r |-> delete_book(S, id)] : id \in 1..MaxId}
    \cup {[op |-> "update_limit", r |-> book_update_limit(S, n)] : n \in HttpLimitInputs}

\* the store call of each /api/games endpoint in database mode
http_db_game_calls(D, user_id) ==
    {[op |-> "get_all_games", r |-> Read(D)], [op |-> "get_active_count", r |-> Read(D)]}
    \cup {[op |-> "add_game", r |-> db_add_game(D, user_id, d)] : d \in HttpGameCreateInputs}
    \cup {[op |-> "update_game", r |-> db_update_game(D, user_id, id, u, now)] :
            id \in 1..MaxId, u \in HttpGameUpdateInputs, now \in Times}
    \cup {[op |-> "delete_game", r |-> db_delete_game(D, user_id, id)] : id \in 1..MaxId}
    \cup {[op |-> "update_limit", r |-> update_user_setting(D, user_id, "game_limit", n)] :
            n \in HttpLimitInputs}

\* the store call of each /api/books endpoint in database mode
http_db_book_calls(D, user_id) ==
    {[op |-> "get_all_books", r |-> Read(D)], [op |-> "get_reading_count", r |-> Read(D)]}
    \cup {[op |-> "add_book", r |-> db_add_book(D, user_id, d)] : d \in HttpBookCreateInputs}
    \cup {[op |-> "update_book", r |-> db_update_book(D, user_id, id, u, now)] :
            id \in 1..MaxId, u \in HttpBookUpdateInputs, now \in Times}
    \cup {[op |-> "delete_book", r |-> db_delete_book(D, user_id, id)] : id \in 1..MaxId}
    \cup {[op |-> "update_limit", r |-> update_user_setting(D, user_id, "book_limit", n)] :
            n \in HttpLimitInputs}

\* what a request leaves in `last`: the endpoint's store call, the exception
\* the handler saw, the credentials sent and the status answered
Response(op, exc, credentials, status) ==
    [op |-> op, exc |-> exc, credentials |-> credentials, status |-> status]

GameEndpoints ==
    {"get_all_games", "get_active_count", "add_game", "update_game", "delete_game", "update_limit"}
BookEndpoints ==
    {"get_all_books", "get_reading_count", "add_book", "update_book", "delete_book", "update_limit"}

\* requests rejected by their dependencies: the endpoint body does not run
rejected(endpoints, S) == {[op |-> e, r |-> Raise(S, "HTTPException")] : e \in endpoints}

\* a request to an /api/games endpoint, JSON mode
HttpGameStore ==
    \E credentials \in Credentials :
        LET auth == get_current_active_user(credentials) IN
        /\ target = "GameStore"
        /\ \E f \in files_after_auth(credentials),
              c \in IF auth.status = 200 THEN http_game_calls(GameStoreState)
                    ELSE rejected(GameEndpoints, GameStoreState) :
            /\ c.op = "add_game" => next_id <= MaxId
            /\ games' = c.r.store.games
            /\ next_id' = c.r.store.next_id
            /\ limit' = c.r.store.limit
            /\ data_file' = IF c.r.saved THEN save_data(c.r.store) ELSE f
            /\ pushes' = save_data_sync(c.r).pushes
            /\ github_file' = save_data_sync(c.r).github_file
            /\ issued' = IF c.op = "add_game" /\ c.r.exc = None
                         THEN issued \cup {next_id} ELSE issued
            /\ last' = Response(c.op, c.r.exc, credentials,
                                IF auth.status = 200 THEN game_endpoint(c.r.exc) ELSE auth.status)
        /\ UNCHANGED <<sync_enabled, bookVars, dbVars, target, concVars>>

\* a request to an /api/books endpoint, JSON mode
HttpBookStore ==
    \E credentials \in Credentials :
        LET auth == get_current_active_user(credentials) IN
        /\ target = "BookStore"
        /\ \E f \in files_after_auth(credentials),
              c \in IF auth.status = 200 THEN http_book_calls(BookStoreState)
                    ELSE rejected(BookEndpoints, BookStoreState) :
            /\ c.op = "add_book" => book_next_id <= MaxId
            /\ BookStoreStep(c.r)
            /\ data_file' = f
            /\ last' = Response(c.op, c.r.exc, credentials,
                                IF auth.status = 200 THEN book_endpoint(c.r.exc) ELSE auth.status)
        /\ UNCHANGED <<games, next_id, limit, issued, sync_enabled, github_file, pushes,
                       dbVars, target, concVars>>

\* a request to an /api/games endpoint, database mode
HttpDbGames ==
    \E credentials \in Credentials :
        LET auth == get_current_active_user(credentials) IN
        /\ target = "MultiUserStore.games"
        /\ \E c \in IF auth.status = 200 THEN http_db_game_calls(DbState, auth.user.id)
                    ELSE rejected(GameEndpoints, DbState) :
            /\ c.op = "add_game" => db_seq.games <= MaxId
            /\ DbStep(c.r)
            /\ last' = Response(c.op, c.r.exc, credentials,
                                IF auth.status = 200 THEN game_endpoint(c.r.exc) ELSE auth.status)
        /\ UNCHANGED <<gameVars, bookVars, target, concVars>>

\* a request to an /api/books endpoint, database mode
HttpDbBooks ==
    \E credentials \in Credentials :
        LET auth == get_current_active_user(credentials) IN
        /\ target = "MultiUserStore.books"
        /\ \E c \in IF auth.status = 200 THEN http_db_book_calls(DbState, auth.user.id)
                    ELSE rejected(BookEndpoints, DbState) :
            /\ c.op = "add_book" => db_seq.books <= MaxId
            /\ DbStep(c.r)
            /\ last' = Response(c.op, c.r.exc, credentials,
                                IF auth.status = 200 THEN book_endpoint(c.r.exc) ELSE auth.status)
        /\ UNCHANGED <<gameVars, bookVars, target, concVars>>

\* an upload thread ends with GitHub holding its data
UploadSucceeds ==
    \E data \in pushes :
        /\ target = "GameStore"
        /\ github_file' = data
        /\ pushes' = pushes \ {data}
        /\ UNCHANGED <<games, next_id, limit, data_file, issued, sync_enabled,
                       bookVars, dbVars, target, last, concVars>>

\* an upload thread ends without effect: upload_to_github returned False on an
\* HTTP error, or caught what the request raised
UploadFails ==
    \E data \in pushes :
        /\ target = "GameStore"
        /\ pushes' = pushes \ {data}
        /\ UNCHANGED <<games, next_id, limit, data_file, issued, sync_enabled, github_file,
                       bookVars, dbVars, target, last, concVars>>

\* a games_data.json that an earlier deployment pushed to the repository
RemoteFiles ==
    {save_data([games |-> dict_set(EmptyDict, 1, Game(1, <<"F">>, ACTIVE, "t1", None)),
                next_id |-> 2, limit |-> 3])}

\* the application starts in either storage mode; in JSON mode with or without
\* GitHub sync, whose start-up download may fail
InitHttp ==
    /\ sync_enabled \in BOOLEAN
    /\ github_file \in IF sync_enabled THEN {NoFile} \cup RemoteFiles ELSE {NoFile}
    /\ pushes = {}
    /\ data_file \in IF sync_enabled THEN {NoFile, github_file} ELSE {NoFile}
    /\ games = game_store_construct(data_file).games
    /\ next_id = game_store_construct(data_file).next_id
    /\ limit = game_store_construct(data_file).limit
    /\ issued = DOMAIN games
    /\ InitBookStore
    /\ InitDb
    /\ InitRequests
    /\ target \in Targets
    /\ target \in DbTargets => ~sync_enabled
    /\ last = Call("init", None)

NextHttp ==
    \/ HttpGameStore \/ HttpBookStore \/ HttpDbGames \/ HttpDbBooks
    \/ UploadSucceeds \/ UploadFails

SpecHttp == InitHttp /\ [][NextHttp]_vars


----------------------------------------------------------------------------
(* GameStore with GitHub sync enabled: calls, their upload threads, and the *)
(* manual syncs of /api/sync/to-github and /api/sync/from-github            *)

\* the calls made on the synced store, each with its outcome on S
synced_calls(S) ==
    {[op |-> "add_game", r |-> add_game(S, d, now)] :
        d \in HttpGameCreateInputs, now \in Times}
    \cup {[op |-> "update_game", r |-> update_game(S, id, u, now)] :
        id \in 1..MaxId, u \in HttpGameUpdateInputs, now \in Times}
    \cup {[op |-> "delete_game", r |-> delete_game(S, id)] : id \in 1..MaxId}
    \cup {[op |-> "update_limit", r |-> update_limit(S, n)] : n \in {m \in LimitInputs : m = 1}}

\* any of add_game, update_game, delete_game, update_limit, as one whole call
SyncedCall ==
    \E c \in synced_calls(GameStoreState) :
        /\ target = "GameStore"
        /\ c.op = "add_game" => next_id <= MaxId
        /\ GameStoreStep(c.r)
        /\ issued' = IF c.op = "add_game" /\ c.r.exc = None THEN issued \cup {next_id} ELSE issued
        /\ last' = Call(c.op, c.r.exc)
        /\ UNCHANGED <<bookVars, dbVars, target, concVars>>

\* what a manual sync leaves in `last`: the call and the value it returned
Synced(op, result) == [op |-> op, exc |-> None, result |-> result]

\* GameStore.manual_sync_to_github: the local file is uploaded by the caller;
\* False when the upload fails or there is no local file
manual_sync_to_github ==
    \E ok \in BOOLEAN :
        /\ target = "GameStore"
        /\ sync_enabled
        /\ github_file' = IF ok /\ data_file.exists THEN data_file ELSE github_file
        /\ last' = Synced("manual_sync_to_github", ok /\ data_file.exists)
        /\ UNCHANGED <<games, next_id, limit, data_file, issued, sync_enabled, pushes,
                       bookVars, dbVars, target, concVars>>

\* GameStore.manual_sync_from_github: github_sync.sync_from_github writes the
\* downloaded data to the local file and, on success, _load_data() runs (no
\* lock is taken); False and no change when the download fails
manual_sync_from_github ==
    \E ok \in BOOLEAN :
        LET success == ok /\ github_file.exists
            S == IF success THEN load_data(GameStoreState, github_file) ELSE GameStoreState
        IN
        /\ target = "GameStore"
        /\ sync_enabled
        /\ data_file' = IF success THEN github_file ELSE data_file
        /\ games' = S.games
        /\ next_id' = S.next_id
        /\ limit' = S.limit
        /\ last' = Synced("manual_sync_from_github", success)
        /\ UNCHANGED <<issued, sync_enabled, github_file, pushes,
                       bookVars, dbVars, target, concVars>>

\* GameStore() constructed with ENABLE_GITHUB_SYNC=true and a token, where
\* neither the repository nor the disk holds a games_data.json
InitSync ==
    /\ games = EmptyDict
    /\ next_id = 1
    /\ limit = 5
    /\ data_file = NoFile
    /\ issued = {}
    /\ sync_enabled = TRUE
    /\ github_file = NoFile
    /\ pushes = {}
    /\ InitBookStore
    /\ InitDb
    /\ InitRequests
    /\ target = "GameStore"
    /\ last = Call("init", None)

NextSync ==
    \/ SyncedCall \/ UploadSucceeds \/ UploadFails
    \/ manual_sync_to_github \/ manual_sync_from_github

SpecSync == InitSync /\ [][NextSync]_vars


----------------------------------------------------------------------------
(* The GitHub sync endpoints of the application. /api/sync/to-github and
   /api/sync/from-github declare no dependency: their handlers run for every
   request, whatever Authorization header it carries. *)

\* POST /api/sync/from-github. In database mode the HTTPException(400) raised
\* in the try block is caught by `except Exception` and answered as 500; in
\* JSON mode the handler calls GameStore.manual_sync_from_github, which
\* returns False when sync is disabled or the download fails and otherwise
\* writes the downloaded file and runs _load_data()
sync_from_github ==
    \E credentials \in Credentials, ok \in BOOLEAN :
        LET success == ~use_database /\ sync_enabled /\ ok /\ github_file.exists
            S == IF success THEN load_data(GameStoreState, github_file) ELSE GameStoreState
        IN
        /\ data_file' = IF success THEN github_file ELSE data_file
        /\ games' = S.games
        /\ next_id' = S.next_id
        /\ limit' = S.limit
        /\ last' = Response("sync_from_github",
                            IF use_database THEN "HTTPException" ELSE None,
                            credentials,
                            IF use_database THEN 500 ELSE 200)
        /\ UNCHANGED <<issued, sync_enabled, github_file, pushes,
                       bookVars, dbVars, target, concVars>>

\* the application of InitHttp, receiving item requests and inbound syncs;
\* the upload threads its saves start are not followed to their end
NextHttpSync ==
    \/ HttpGameStore \/ HttpBookStore \/ HttpDbGames \/ HttpDbBooks
    \/ sync_from_github

SpecHttpSync == InitHttp /\ [][NextHttpSync]_vars


----------------------------------------------------------------------------

(* Requests whose body supplies null for a field, and the list-all reads.
   GameUpdate and BookUpdate declare every field Optional, so {"status": null}
   passes validation with status in the set of fields that were sent.
   GameStore.update_game tests `is not None` and treats it as absent;
   BookStore.update_book and MultiUserStore iterate
   updates.dict(exclude_unset=True) and assign it. *)

\* BookUpdate bodies with "status": null, with or without a title
NullStatusUpdateInputs ==
    {[title |-> n, status |-> None, set |-> {"title", "status"}] : n \in {<<"G">>}}
    \cup {[title |-> <<>>, status |-> None, set |-> {"status"}]}

\* GameUpdate bodies with "status": null
NullStatusGameUpdateInputs ==
    {[name |-> <<>>, status |-> None, set |-> {"status"}]}

UpdateBookNull ==
    \E book_id \in 1..MaxId, updates \in NullStatusUpdateInputs, now \in Times :
        LET r == update_book(BookStoreState, book_id, updates, now) IN
        /\ target = "BookStore"
        /\ BookStoreStep(r)
        /\ last' = Call("update_book", r.exc)
        /\ UNCHANGED <<gameVars, dbVars, target, concVars>>

DbUpdateGameNull ==
    \E user_id \in Users, game_id \in 1..MaxId, updates \in NullStatusGameUpdateInputs,
       now \in Times :
        LET r == db_update_game(DbState, user_id, game_id, updates, now) IN
        /\ target = "MultiUserStore.games"
        /\ DbStep(r)
        /\ last' = Call("update_game", r.exc)
        /\ UNCHANGED <<gameVars, bookVars, target, concVars>>

DbUpdateBookNull ==
    \E user_id \in Users, book_id \in 1..MaxId, updates \in NullStatusUpdateInputs,
       now \in Times :
        LET r == db_update_book(DbState, user_id, book_id, updates, now) IN
        /\ target = "MultiUserStore.books"
        /\ DbStep(r)
        /\ last' = Call("update_book", r.exc)
        /\ UNCHANGED <<gameVars, bookVars, target, concVars>>

\* get_all_games / get_all_books of the store in use: a read under the lock
\* (a SELECT in database mode)
GetAll ==
    /\ last' = Call(IF target \in GameTargets THEN "get_all_games" ELSE "get_all_books", None)
    /\ UNCHANGED <<gameVars, bookVars, dbVars, target, concVars>>

NextNull ==
    \/ Next
    \/ UpdateBookNull \/ DbUpdateGameNull \/ DbUpdateBookNull
    \/ GetAll

SpecNull == Init /\ [][NextNull]_vars



----------------------------------------------------------------------------
(* GameStore with GitHub sync enabled, called by concurrent requests: the
   locked calls of add_game, update_game, delete_game and update_limit, and
   manual_sync_from_github, which takes no lock.  The upload threads that the
   saves start are not followed to their end. *)

InitLockSync ==
    /\ games = EmptyDict
    /\ next_id = 1
    /\ limit = 5
    /\ data_file = NoFile
    /\ issued = {}
    /\ sync_enabled = TRUE
    /\ github_file \in RemoteFiles
    /\ pushes = {}
    /\ InitBookStore
    /\ InitDb
    /\ InitRequests
    /\ target = "GameStore"
    /\ last = Call("init", None)

NextLockSync ==
    \/ \E t \in Threads :
          \/ LockCall(t) \/ LockAcquire(t) \/ LockRelease(t)
          \/ GameStoreCheck(t) \/ GameStoreWrite(t)
    \/ manual_sync_from_github

SpecLockSync == InitLockSync /\ [][NextLockSync]_vars



----------------------------------------------------------------------------
(* The locked calls of the JSON stores under fair scheduling, with writes
   whose _save_data() raises (BookStore; GameStore._save_data catches the
   error and the call goes on as after a save).  A thread that is inside a call keeps running
   (weak fairness of its steps) and a thread that waits for the lock gets it
   if it is free again and again (strong fairness of the acquisition); new
   calls arrive at any time or never. *)

\* BookStore._save_data fails inside a call whose checks passed: the error is
\* raised again and leaves the `with` block.  The failing write followed here
\* is that of update_limit.
BookStoreWriteSaveFails(t) ==
    LET S == book_write(BookStoreState, req[t]) IN
    /\ target = "BookStore"
    /\ pc[t] = "write"
    /\ req[t].op = "update_limit"
    /\ books' = S.books
    /\ book_next_id' = S.next_id
    /\ book_limit' = S.limit
    /\ last' = Call(req[t].op, "OSError")
    /\ pc' = [pc EXCEPT ![t] = "release"]
    /\ req' = [req EXCEPT ![t] = NoRequest]
    /\ UNCHANGED <<book_file, gameVars, dbVars, target, lock>>

\* the steps of request t inside a call
LockedStep(t) ==
    \/ GameStoreCheck(t) \/ GameStoreWrite(t)
    \/ BookStoreCheck(t) \/ BookStoreWrite(t) \/ BookStoreWriteSaveFails(t)
    \/ LockRelease(t)

NextLockFair ==
    \E t \in Threads : LockCall(t) \/ LockAcquire(t) \/ LockedStep(t)

SpecLockFair ==
    /\ InitLock
    /\ [][NextLockFair]_vars
    /\ \A t \in Threads : SF_vars(LockAcquire(t)) /\ WF_vars(LockedStep(t))



----------------------------------------------------------------------------
(* GameStore with GitHub sync enabled and a network that never fails: every
   save starts an upload thread (store.py:218-219, 275-291), the threads run
   concurrently with the calls and with each other, and each ends with
   GitHub holding the data it was started with. *)

\* a call of add_game, update_game, delete_game or update_limit, with the
\* upload thread its _save_data() starts
PushedCall ==
    \E c \in synced_calls(GameStoreState) :
        /\ target = "GameStore"
        /\ sync_enabled
        /\ c.op = "add_game" => next_id <= MaxId
        /\ Cardinality(pushes) < MaxRacingPushes
        /\ games' = c.r.store.games
        /\ next_id' = c.r.store.next_id
        /\ limit' = c.r.store.limit
        /\ data_file' = IF c.r.saved THEN save_data(c.r.store) ELSE data_file
        /\ pushes' = IF c.r.saved THEN pushes \cup {save_data(c.r.store)} ELSE pushes
        /\ issued' = IF c.op = "add_game" /\ c.r.exc = None THEN issued \cup {next_id} ELSE issued
        /\ last' = Call(c.op, c.r.exc)
        /\ UNCHANGED <<sync_enabled, github_file, bookVars, dbVars, target, concVars>>

NextPush == PushedCall \/ UploadSucceeds

SpecPush == InitSync /\ [][NextPush]_vars



----------------------------------------------------------------------------
(* Properties of the stores *)

\* the names the three stores give to the failures of the specification
LimitExceeded == {"GameLimitExceededError", "BookLimitExceededError"}
DuplicateName == {"DuplicateGameError", "DuplicateBookError"}
NotFound == {"GameNotFoundError", "BookNotFoundError"}

Terminal == {FINISHED, DROPPED}

\* the calls that add or update an item, and those that set a limit
AddOps == {"add_game", "add_book"}
UpdateOps == {"update_game", "update_book"}

\* titles compared as the specification compares them: trimmed, ignoring case
same_title(a, b) == lower(strip(a)) = lower(strip(b))

\* number of a user's rows of table T in the limited status st
db_limited(T, user_id, st) == {i \in DOMAIN T : T[i].user_id = user_id /\ T[i].status = st}

\* every owner's count of items in the limited status is within the limit
CountWithinLimit ==
    /\ Cardinality(active_games(games)) <= limit
    /\ reading_count(books, {}) <= book_limit
    /\ \A u \in Users :
        /\ Cardinality(db_limited(db_games, u, ACTIVE)) <= db_settings["game_limit"][u]
        /\ Cardinality(db_limited(db_books, u, READING)) <= db_settings["book_limit"][u]

\* C1: in every store, after every successful add-item, update-item or
\* set-limit, each owner's number of items in the limited status is at most
\* that owner's limit.
C1_CountWithinLimitAfterSuccess ==
    [][(last'.exc = None /\ last'.op \in AddOps \cup UpdateOps \cup {"update_limit"})
        => CountWithinLimit']_vars

\* C2: in every reachable state of every store, no two distinct items of one
\* owner that are both in the limited status have titles that are equal after
\* trimming and ignoring case.
C2_LimitedTitlesUnique ==
    /\ \A i, j \in active_games(games) :
        i # j => ~same_title(games[i].name, games[j].name)
    /\ \A i, j \in {k \in DOMAIN books : books[k].status = READING} :
        i # j => ~same_title(books[i].title, books[j].title)
    /\ \A u \in Users :
        /\ \A i, j \in db_limited(db_games, u, ACTIVE) :
            i # j => ~same_title(db_games[i].name, db_games[j].name)
        /\ \A i, j \in db_limited(db_books, u, READING) :
            i # j => ~same_title(db_books[i].title, db_books[j].title)

\* every item's ended_at is set exactly when its status is terminal
EndedAtIffTerminal ==
    /\ \A i \in DOMAIN games : (games[i].ended_at # None) <=> (games[i].status \in Terminal)
    /\ \A i \in DOMAIN books : (books[i].ended_at # None) <=> (books[i].status \in Terminal)
    /\ \A i \in DOMAIN db_games : (db_games[i].ended_at # None) <=> (db_games[i].status \in Terminal)
    /\ \A i \in DOMAIN db_books : (db_books[i].ended_at # None) <=> (db_books[i].status \in Terminal)

\* C3: after every add-item or update-item that returned, in every store, each
\* item's ended_at is non-null if and only if its status is FINISHED or DROPPED.
C3_EndedAtIffTerminalAfterMutation ==
    [][(last'.exc = None /\ last'.op \in AddOps \cup UpdateOps) => EndedAtIffTerminal']_vars

\* a title collides with a limited item of G other than the item `self`
game_collides(G, name, self) ==
    \E i \in active_games(G) : i # self /\ same_title(G[i].name, name)

book_collides(B, title, self) ==
    \E i \in DOMAIN B : i # self /\ B[i].status = READING /\ same_title(B[i].title, title)

db_game_collides(T, user_id, name, self) ==
    \E i \in db_limited(T, user_id, ACTIVE) : i # self /\ same_title(T[i].name, name)

\* the status and the title an item has once an update is applied
effective_status(item, updates) ==
    IF "status" \in updates.set THEN updates.status ELSE item.status

effective_name(item, updates) ==
    IF "name" \in updates.set THEN updates.name ELSE item.name

effective_title(item, updates) ==
    IF "title" \in updates.set THEN updates.title ELSE item.title

\* C4 for GameStore; an add or a transition into ACTIVE is considered where
\* the limit leaves room, so that the limit check is not what answers
C4_GameStore ==
    LET S == GameStoreState
        room == Cardinality(active_games(games)) < limit
    IN  /\ \A d \in GameCreateInputs, now \in Times :
            (d.status = ACTIVE /\ room /\ game_collides(games, d.name, 0))
                => LET r == add_game(S, d, now)
                   IN  r.exc \in DuplicateName /\ r.store = S
        /\ \A id \in DOMAIN games, u \in GameUpdateInputs, now \in Times :
            ( /\ effective_status(games[id], u) = ACTIVE
              /\ games[id].status = ACTIVE \/ room
              /\ game_collides(games, effective_name(games[id], u), id) )
                => LET r == update_game(S, id, u, now)
                   IN  r.exc \in DuplicateName /\ r.store = S

C4_BookStore ==
    LET S == BookStoreState
        room == reading_count(books, {}) < book_limit
    IN  /\ \A d \in BookCreateInputs, now \in Times :
            (d.status = READING /\ room /\ book_collides(books, d.title, 0))
                => LET r == add_book(S, d, now)
                   IN  r.exc \in DuplicateName /\ r.store = S
        /\ \A id \in DOMAIN books, u \in BookUpdateInputs, now \in Times :
            ( /\ effective_status(books[id], u) = READING
              /\ books[id].status = READING \/ room
              /\ book_collides(books, effective_title(books[id], u), id) )
                => LET r == update_book(S, id, u, now)
                   IN  r.exc \in DuplicateName /\ r.store = S

C4_MultiUserStore ==
    LET D == DbState
    IN  \A user \in Users :
        LET room == Cardinality(db_limited(db_games, user, ACTIVE)) < db_settings["game_limit"][user]
            mine == {i \in DOMAIN db_games : db_games[i].user_id = user}
        IN  /\ \A d \in GameCreateInputs :
                (d.status = ACTIVE /\ room /\ db_game_collides(db_games, user, d.name, 0))
                    => LET r == db_add_game(D, user, d)
                       IN  r.exc \in DuplicateName /\ r.store = D
            /\ \A id \in mine, u \in GameUpdateInputs, now \in Times :
                ( /\ effective_status(db_games[id], u) = ACTIVE
                  /\ db_games[id].status = ACTIVE \/ room
                  /\ db_game_collides(db_games, user, effective_name(db_games[id], u), id) )
                    => LET r == db_update_game(D, user, id, u, now)
                       IN  r.exc \in DuplicateName /\ r.store = D

\* C4: an add-item into the limited status, or an update-item whose effective
\* status is the limited status, with a title that equals (trimmed, ignoring
\* case) the title of another limited item of the owner fails with
\* DuplicateName and leaves the collection exactly as it was.
C4_CollisionFailsAndChangesNothing ==
    /\ C4_GameStore
    /\ C4_BookStore
    /\ C4_MultiUserStore

\* C9: in the JSON game store an add-item never hands out an id that an
\* earlier add-item handed out, across add, update, delete and restart
\* (save and reload); ids start at 1 and increase.
C9_IdsNeverReused ==
    [][(target = "GameStore" /\ last'.op = "add_game" /\ last'.exc = None)
        => /\ (DOMAIN games') \ (DOMAIN games) = {next_id}
           /\ next_id \notin issued
           /\ \A i \in issued : i < next_id
           /\ next_id' = next_id + 1]_vars

\* the items an add-item step has created
new_ids(before, after) == (DOMAIN after) \ (DOMAIN before)

\* C10: in every store, the item an add-item stores has ended_at set
\* (non-null) when it was requested as FINISHED or DROPPED, and ended_at null
\* when it was requested with any other status.
C10_AddSetsEndedAtIffTerminal ==
    [][(last'.exc = None /\ last'.op \in AddOps)
        => /\ \A i \in new_ids(games, games') :
                (games'[i].ended_at # None) <=> (games'[i].status \in Terminal)
           /\ \A i \in new_ids(books, books') :
                (books'[i].ended_at # None) <=> (books'[i].status \in Terminal)
           /\ \A i \in new_ids(db_games, db_games') :
                (db_games'[i].ended_at # None) <=> (db_games'[i].status \in Terminal)
           /\ \A i \in new_ids(db_books, db_books') :
                (db_books'[i].ended_at # None) <=> (db_books'[i].status \in Terminal)]_vars

\* add-item into the limited status as C5 describes it, for GameStore.add_game;
\* with `trimmed` the accepted titles are those that are not empty once trimmed
C5_GameStore(trimmed) ==
    LET S == GameStoreState
        count(T) == Cardinality(active_games(T.games))
    IN  \A d \in GameCreateInputs, now \in Times :
        LET r == add_game(S, d, now)
            accepted == trimmed => min_length_ok(strip(d.name))
        IN  d.status = ACTIVE =>
            /\ count(S) >= S.limit => (r.exc \in LimitExceeded /\ count(r.store) = count(S))
            /\ (count(S) < S.limit /\ ~game_collides(S.games, d.name, 0) /\ accepted)
                    => r.exc = None
            /\ \A id \in active_games(games), u \in GameUpdateInputs :
                LET m == update_game(S, id, u, now)
                    A == m.store
                IN  ( /\ r.exc \in LimitExceeded
                      /\ m.exc = None /\ A.games[id].status # ACTIVE
                      /\ ~game_collides(A.games, d.name, 0)
                      /\ trimmed => (count(A) < A.limit /\ accepted) )
                        => add_game(A, d, now).exc = None

C5_BookStore(trimmed) ==
    LET S == BookStoreState
        count(T) == reading_count(T.books, {})
    IN  \A d \in BookCreateInputs, now \in Times :
        LET r == add_book(S, d, now)
            accepted == trimmed => min_length_ok(strip(d.title))
        IN  d.status = READING =>
            /\ count(S) >= S.limit => (r.exc \in LimitExceeded /\ count(r.store) = count(S))
            /\ (count(S) < S.limit /\ ~book_collides(S.books, d.title, 0) /\ accepted)
                    => r.exc = None
            /\ \A id \in {k \in DOMAIN books : books[k].status = READING}, u \in BookUpdateInputs :
                LET m == update_book(S, id, u, now)
                    A == m.store
                IN  ( /\ r.exc \in LimitExceeded
                      /\ m.exc = None /\ A.books[id].status # READING
                      /\ ~book_collides(A.books, d.title, 0)
                      /\ trimmed => (count(A) < A.limit /\ accepted) )
                        => add_book(A, d, now).exc = None

C5_MultiUserStore(trimmed) ==
    LET D == DbState
    IN  \A user \in Users, d \in GameCreateInputs, now \in Times :
        LET count(T) == Cardinality(db_limited(T.games, user, ACTIVE))
            lim(T) == T.settings["game_limit"][user]
            r == db_add_game(D, user, d)
            accepted == trimmed => min_length_ok(strip(d.name))
        IN  d.status = ACTIVE =>
            /\ count(D) >= lim(D) => (r.exc \in LimitExceeded /\ count(r.store) = count(D))
            /\ (count(D) < lim(D) /\ ~db_game_collides(D.games, user, d.name, 0) /\ accepted)
                    => r.exc = None
            /\ \A id \in db_limited(db_games, user, ACTIVE), u \in GameUpdateInputs :
                LET m == db_update_game(D, user, id, u, now)
                    A == m.store
                IN  ( /\ r.exc \in LimitExceeded
                      /\ m.exc = None /\ A.games[id].status # ACTIVE
                      /\ ~db_game_collides(A.games, user, d.name, 0)
                      /\ trimmed => (count(A) < lim(A) /\ accepted) )
                        => db_add_game(A, user, d).exc = None

DeleteIds == 1..(MaxId + 1)

InLock == {"check", "write", "release"}

limited_count_now ==
    IF target = "GameStore" THEN Cardinality(active_games(games)) ELSE reading_count(books, {})

limit_now == IF target = "GameStore" THEN limit ELSE book_limit

\* C7: in the JSON stores, under any interleaving of concurrent add, update,
\* delete and set-limit calls, a call is between its checks and the end of its
\* writes only while it alone holds the lock, and a call that passed the limit
\* check still finds the count below the limit when it writes: the write
\* leaves the count of limited items within the limit.
C7_CheckThenWriteUnderLock ==
    \A t \in Threads :
        /\ pc[t] \in InLock => lock = {t}
        /\ (pc[t] = "write" /\ req[t].raises) => limited_count_now < limit_now

\* a request that passed the limit check with one place left is about to
\* write while another request is waiting for the lock
C7_AddersContend ==
    \E t, o \in Threads :
        /\ t # o
        /\ pc[t] = "write" /\ req[t].raises
        /\ limited_count_now = limit_now - 1
        /\ pc[o] = "acquire"

\* a user's rows in the limited status, and the user's limit, in the table
\* the requests go to
db_limited_count(user_id) ==
    IF target = "MultiUserStore.games"
    THEN Cardinality(db_limited(db_games, user_id, ACTIVE))
    ELSE Cardinality(db_limited(db_books, user_id, READING))

db_limit(user_id) ==
    IF target = "MultiUserStore.games"
    THEN db_settings["game_limit"][user_id]
    ELSE db_settings["book_limit"][user_id]

\* C8: in the database store the limit check of add-item and its insert are
\* not serialized across sessions: whenever a user's count of limited items
\* rises above the limit, it does so by the commit of an add-item whose limit
\* check passed on a count that was read before another session's commit
\* raised it (two concurrent adds that both read count = limit - 1).
C8_OvershootOnlyByStaleCheck ==
    [][\A u \in Users :
        (db_limited_count(u)' > db_limit(u)' /\ db_limited_count(u) <= db_limit(u))
            => \E t \in Threads :
                /\ pc[t] = "commit" /\ pc'[t] = "idle"
                /\ req[t].user_id = u
                /\ req[t].seen_count < req[t].seen_limit
                /\ req[t].seen_count < db_limited_count(u)]_vars

\* two add-item calls of one user have both committed and the user's count of
\* limited items is above the limit
C8_CountAboveLimit ==
    /\ target \in DbTargets
    /\ last.op \in AddOps /\ last.exc = None
    /\ \E u \in Users : db_limited_count(u) = db_limit(u) + 1

\* errors an add-item call is specified to report
PersistError == {"OSError"}
AddFailures == LimitExceeded \cup DuplicateName \cup PersistError

\* C11: an add-item call on a JSON store that reports LimitExceeded,
\* DuplicateName or an error raised while persisting leaves the in-memory
\* collection, the next id and the limit exactly as they were before the call.
C11_FailedAddMutatesNothing ==
    [][(last'.op \in AddOps /\ last'.exc \in AddFailures)
        => /\ games' = games /\ next_id' = next_id /\ limit' = limit
           /\ books' = books /\ book_next_id' = book_next_id /\ book_limit' = book_limit]_vars


\* the item a request of user_id for item_id addresses does not exist
missing_item(user_id, item_id) ==
    CASE target = "GameStore" -> item_id \notin DOMAIN games
      [] target = "BookStore" -> item_id \notin DOMAIN books
      [] target = "MultiUserStore.games" ->
            item_id \notin DOMAIN db_games \/ db_games[item_id].user_id # user_id
      [] OTHER ->
            item_id \notin DOMAIN db_books \/ db_books[item_id].user_id # user_id

\* the status answered to PATCH /api/{games,books}/{item_id}
patch_status(user_id, item_id, updates, now) ==
    CASE target = "GameStore" ->
            game_endpoint(update_game(GameStoreState, item_id, updates, now).exc)
      [] target = "BookStore" ->
            book_endpoint(update_book(BookStoreState, item_id,
                [title |-> updates.name, status |-> updates.status, set |-> updates.set], now).exc)
      [] target = "MultiUserStore.games" ->
            game_endpoint(db_update_game(DbState, user_id, item_id, updates, now).exc)
      [] OTHER ->
            book_endpoint(db_update_book(DbState, user_id, item_id,
                [title |-> updates.name, status |-> updates.status, set |-> updates.set], now).exc)

\* the status answered to DELETE /api/{games,books}/{item_id}
delete_status(user_id, item_id) ==
    CASE target = "GameStore" -> game_endpoint(delete_game(GameStoreState, item_id).exc)
      [] target = "BookStore" -> book_endpoint(delete_book(BookStoreState, item_id).exc)
      [] target = "MultiUserStore.games" -> game_endpoint(db_delete_game(DbState, user_id, item_id).exc)
      [] OTHER -> book_endpoint(db_delete_book(DbState, user_id, item_id).exc)

\* C12: for games and books in both storage modes, a store call that failed
\* with NotFound is answered with 404 and one that failed with LimitExceeded
\* or DuplicateName with 400; PATCH or DELETE of a missing item id is
\* answered with 404.
C12_StoreFailuresAnsweredByStatus ==
    /\ last.exc \in NotFound => response_status = 404
    /\ last.exc \in LimitExceeded \cup DuplicateName => response_status = 400
    /\ \A user_id \in Users, item_id \in DeleteIds :
          missing_item(user_id, item_id) =>
             /\ delete_status(user_id, item_id) = 404
             /\ \A updates \in GameUpdateInputs, now \in Times :
                   patch_status(user_id, item_id, updates, now) = 404


\* users that exist, and those of them that are active, in the storage mode
existing_users == IF use_database THEN DOMAIN UserRows ELSE {1}
active_users == {u \in existing_users : use_database => UserRows[u].is_active}

\* a bearer token that is validly signed and not expired
valid_token(c) == c.present /\ c.signed /\ ~c.expired

\* the state of the stores: collections, next ids, limits, files and tables
storeVars == <<games, next_id, limit, data_file, books, book_next_id, book_limit, book_file,
               db_games, db_books, db_settings, db_seq>>

\* the answer to a request that carries no valid token of an existing active user
rejection(c) ==
    IF valid_token(c) /\ c.sub \in existing_users \ active_users THEN 403 ELSE 401

\* C13: an item endpoint executes its store operation only for a request with
\* a valid bearer token of an existing active user; any other request is
\* answered 401 (403 for an inactive user) and leaves the store unchanged.
C13_UnauthenticatedRejectedWithoutEffect ==
    [][last'.op \in GameEndpoints \cup BookEndpoints =>
         LET c == last'.credentials IN
         (valid_token(c) /\ c.sub \in active_users)
         \/ (last'.status = rejection(c) /\ last'.exc = "HTTPException" /\ UNCHANGED storeVars)]_vars


\* the rows of table T that belong to user_id
rows_of(T, user_id) == [i \in {j \in DOMAIN T : T[j].user_id = user_id} |-> T[i]]

\* the tables once user_id has deleted every item and has the limits of a new user
without_user(D, user_id) ==
    [D EXCEPT !.games = [i \in {j \in DOMAIN @ : @[j].user_id # user_id} |-> @[i]],
              !.books = [i \in {j \in DOMAIN @ : @[j].user_id # user_id} |-> @[i]],
              !.settings = [k \in DOMAIN @ |-> [@[k] EXCEPT ![user_id] = 3]]]

\* what user_id can observe of the outcome r of a call: the exception, and
\* the user's own rows and limits after it
observed(r, user_id) ==
    [exc |-> r.exc,
     games |-> rows_of(r.store.games, user_id),
     books |-> rows_of(r.store.books, user_id),
     limits |-> [k \in DOMAIN r.store.settings |-> r.store.settings[k][user_id]]]

\* the calls user_id may make on the tables D (those of the table the
\* behaviour exercises), each with its outcome
db_calls(D, user_id) ==
    IF target = "MultiUserStore.games"
    THEN [add_game |-> [d \in GameCreateInputs |-> db_add_game(D, user_id, d)],
          update_game |-> [a \in DeleteIds \X GameUpdateInputs \X Times |->
                             db_update_game(D, user_id, a[1], a[2], a[3])],
          delete_game |-> [id \in DeleteIds |-> db_delete_game(D, user_id, id)],
          game_limit |-> [n \in DbLimitInputs |->
                             update_user_setting(D, user_id, "game_limit", n)]]
    ELSE [add_book |-> [d \in BookCreateInputs |-> db_add_book(D, user_id, d)],
          update_book |-> [a \in DeleteIds \X BookUpdateInputs \X Times |->
                             db_update_book(D, user_id, a[1], a[2], a[3])],
          delete_book |-> [id \in DeleteIds |-> db_delete_book(D, user_id, id)],
          book_limit |-> [n \in DbLimitInputs |->
                             update_user_setting(D, user_id, "book_limit", n)]]

\* C14 (update and delete): a call of owner A on an id of owner B fails with
\* NotFound and leaves the tables as they are
C14_ForeignIdNotFound(A, B) ==
    \A id \in DOMAIN db_games :
        db_games[id].user_id = B =>
            /\ db_delete_game(DbState, A, id) = Raise(DbState, "GameNotFoundError")
            /\ \A updates \in GameUpdateInputs, now \in Times :
                  db_update_game(DbState, A, id, updates, now) = Raise(DbState, "GameNotFoundError")

\* C14 (reads): list-all-grouped and get-counts of A hold A's items only
C14_ReadsOwnItems(A) ==
    /\ \A s \in GameStatus :
          db_get_all_games(DbState, A)[s] =
              {db_games[i] : i \in {j \in DOMAIN db_games :
                                       db_games[j].user_id = A /\ db_games[j].status = s}}
    /\ \A s \in GameStatus : \A g \in db_get_all_games(DbState, A)[s] : g.user_id = A
    /\ db_get_active_count(DbState, A).count = Cardinality(db_limited(db_games, A, ACTIVE))
    /\ db_get_active_count(DbState, A).limit = db_settings["game_limit"][A]
    /\ db_get_active_count(without_user(DbState, 3 - A), A) = db_get_active_count(DbState, A)
    /\ db_get_all_games(without_user(DbState, 3 - A), A) = db_get_all_games(DbState, A)

\* C14 (non-interference): what A observes of any call is what A would
\* observe had B no items and the limits of a new user, and the call leaves
\* B's rows and limits alone
C14_OutcomeIndependent(A, B) ==
    LET here == db_calls(DbState, A)
        there == db_calls(without_user(DbState, B), A)
    IN  \A op \in DOMAIN here : \A a \in DOMAIN here[op] :
            /\ observed(here[op][a], A) = observed(there[op][a], A)
            /\ observed(here[op][a], B).games = rows_of(db_games, B)
            /\ observed(here[op][a], B).books = rows_of(db_books, B)
            /\ observed(here[op][a], B).limits = [k \in DOMAIN db_settings |-> db_settings[k][B]]

FreshGameStore == [games |-> EmptyDict, next_id |-> 1, limit |-> 5]
FreshBookStore == [books |-> EmptyDict, next_id |-> 1, limit |-> 3]

\* C15: saving the collection of a JSON-file store to its file format and
\* loading that file into a fresh store yields the same ids, the same fields
\* of every item, the same next id and the same limit.
C15_SaveLoadRoundTrip ==
    /\ target = "GameStore" =>
          load_data(FreshGameStore, save_data(GameStoreState)) = GameStoreState
    /\ target = "BookStore" =>
          book_load_data(FreshBookStore, book_save_data(BookStoreState)) = BookStoreState


\* what a caller of the store sees: the store, its file, and the last result
callerVars == <<games, next_id, limit, data_file, issued, last>>

\* C16: with GitHub sync enabled, the end of an upload thread (success, HTTP
\* error or exception) changes neither the store, its file nor the result of
\* any call, and the repository's file never changes in the step of a call
\* that changes the store: the caller neither performs nor awaits the upload.
C16_UploadNeverReachesCaller ==
    [][/\ (pushes' # pushes /\ pushes' \subseteq pushes) => UNCHANGED callerVars
       /\ github_file' # github_file => UNCHANGED <<games, next_id, limit, data_file, issued>>]_vars

\* a second add_game has returned while the upload of the first is still running
C16_CallReturnedDuringUpload ==
    /\ sync_enabled
    /\ last = Call("add_game", None)
    /\ Cardinality(DOMAIN games) = 2
    /\ \E data \in pushes : Cardinality(DOMAIN data.games) = 1
    /\ ~github_file.exists


\* C17: after manual_sync_from_github has returned true, the in-memory state
\* is a full reload of the refreshed file: the collection holds exactly the
\* items of the file, and next id and limit are those of the file.
C17_InboundSyncIsFullReload ==
    last = Synced("manual_sync_from_github", TRUE) =>
        /\ DOMAIN games = DOMAIN data_file.games
        /\ GameStoreState = load_data(FreshGameStore, data_file)
        /\ next_id = data_file.next_id
        /\ limit = data_file.limit


\* limits that may be requested: below, inside and above [1, 5]
RequestedLimits == (0 - 2)..8

\* the larger and the smaller of two integers
max(a, b) == IF a >= b THEN a ELSE b
min(a, b) == IF a <= b THEN a ELSE b

\* C18: in the JSON-file game store set-limit(n) stores min(max(n, 1), 5) and
\* changes nothing else, so after any set-limit call the limit lies in [1, 5]:
\* a request above 5 is stored as 5 and a request of 0 or less as 1.
C18_LimitClamped ==
    target = "GameStore" =>
        /\ last.op = "update_limit" => limit \in 1..5
        /\ \A n \in RequestedLimits :
              LET r == update_limit(GameStoreState, n) IN
              /\ r.exc = None
              /\ r.store = [GameStoreState EXCEPT !.limit = min(max(n, 1), 5)]
              /\ r.store.limit \in 1..5
              /\ n > 5 => r.store.limit = 5
              /\ n <= 0 => r.store.limit = 1

\* a limit above 5 was requested (the requests are 0, 1 and 6) and 5 was stored
C18_RequestAboveFiveStored ==
    /\ target = "GameStore"
    /\ last = Call("update_limit", None)
    /\ limit = 5
    /\ data_file.exists /\ data_file.limit = 5
    /\ Cardinality(active_games(games)) = 2


\* C19 for one store: update-item from a non-terminal status to FINISHED or
\* DROPPED leaves the item with an ended_at
C19_GameStore ==
    \A id \in DOMAIN games, updates \in GameUpdateInputs, now \in Times :
        LET r == update_game(GameStoreState, id, updates, now) IN
        (games[id].status \notin Terminal /\ "status" \in updates.set
            /\ updates.status \in Terminal /\ r.exc = None)
        => r.store.games[id].ended_at # None

C19_BookStore ==
    \A id \in DOMAIN books, updates \in BookUpdateInputs, now \in Times :
        LET r == update_book(BookStoreState, id, updates, now) IN
        (books[id].status \notin Terminal /\ "status" \in updates.set
            /\ updates.status \in Terminal /\ r.exc = None)
        => r.store.books[id].ended_at # None

C19_MultiUserStore ==
    /\ \A id \in DOMAIN db_games, updates \in GameUpdateInputs, now \in Times :
          LET r == db_update_game(DbState, db_games[id].user_id, id, updates, now) IN
          (db_games[id].status \notin Terminal /\ "status" \in updates.set
              /\ updates.status \in Terminal /\ r.exc = None)
          => r.store.games[id].ended_at # None
    /\ \A id \in DOMAIN db_books, updates \in BookUpdateInputs, now \in Times :
          LET r == db_update_book(DbState, db_books[id].user_id, id, updates, now) IN
          (db_books[id].status \notin Terminal /\ "status" \in updates.set
              /\ updates.status \in Terminal /\ r.exc = None)
          => r.store.books[id].ended_at # None

\* C19: in every store variant, an update-item that changes an item's
\* status from a non-terminal status to FINISHED or DROPPED sets that item's
\* ended_at to a non-null timestamp.
C19_TerminalUpdateSetsEndedAt ==
    /\ target = "GameStore" => C19_GameStore
    /\ target = "BookStore" => C19_BookStore
    /\ target \in DbTargets => C19_MultiUserStore


\* failures of the limit and duplicate checks (MultiUserStore reports the
\* limit of books with the base GameTrackerException)
CheckFailures == LimitExceeded \cup DuplicateName \cup {"GameTrackerException"}

\* the updates that change something and re-send the limited status st when
\* they carry a status
resends(Updates, st) ==
    {u \in Updates : /\ u.set # {}
                     /\ "status" \in u.set => u.status = st}

C20_GameStore ==
    \A id \in DOMAIN games, now \in Times :
        games[id].status = ACTIVE =>
            \A u \in resends(GameUpdateInputs, ACTIVE) :
                ("name" \in u.set => same_title(u.name, games[id].name))
                => update_game(GameStoreState, id, u, now).exc \notin CheckFailures

C20_BookStore ==
    \A id \in DOMAIN books, now \in Times :
        books[id].status = READING =>
            \A u \in resends(BookUpdateInputs, READING) :
                ("title" \in u.set => same_title(u.title, books[id].title))
                => update_book(BookStoreState, id, u, now).exc \notin CheckFailures

C20_MultiUserStore ==
    /\ \A id \in DOMAIN db_games, now \in Times :
          db_games[id].status = ACTIVE =>
              \A u \in resends(GameUpdateInputs, ACTIVE) :
                  ("name" \in u.set => same_title(u.name, db_games[id].name))
                  => db_update_game(DbState, db_games[id].user_id, id, u, now).exc \notin CheckFailures
    /\ \A id \in DOMAIN db_books, now \in Times :
          db_books[id].status = READING =>
              \A u \in resends(BookUpdateInputs, READING) :
                  ("title" \in u.set => same_title(u.title, db_books[id].title))
                  => db_update_book(DbState, db_books[id].user_id, id, u, now).exc \notin CheckFailures

\* C20: the limit and duplicate checks of update-item exclude the item being
\* updated: an update of an item in the limited status that re-sends its
\* current status and/or its own title, in any letter case or with surrounding
\* whitespace, never fails with LimitExceeded or DuplicateName.
C20_UpdateExcludesItself ==
    /\ target = "GameStore" => C20_GameStore
    /\ target = "BookStore" => C20_BookStore
    /\ target \in DbTargets => C20_MultiUserStore


\* the collection New differs from Old in the item id at most
only_item_changed(Old, New, id) ==
    /\ DOMAIN New = DOMAIN Old
    /\ \A k \in DOMAIN Old \ {id} : New[k] = Old[k]

\* the item new keeps of old the id, created_at and what the request u does
\* not provide; ended_at moves only with the status
game_fields_kept(old, new, u) ==
    /\ new.id = old.id
    /\ new.created_at = old.created_at
    /\ "name" \notin u.set => new.name = old.name
    /\ "status" \notin u.set => new.status = old.status
    /\ new.status = old.status => new.ended_at = old.ended_at

book_fields_kept(old, new, u) ==
    /\ new.id = old.id
    /\ new.created_at = old.created_at
    /\ "title" \notin u.set => new.title = old.title
    /\ "status" \notin u.set => new.status = old.status
    /\ new.status = old.status => new.ended_at = old.ended_at

C21_GameStore ==
    \A id \in DOMAIN games, u \in GameUpdateInputs, now \in Times :
        LET r == update_game(GameStoreState, id, u, now) IN
        r.exc = None =>
            /\ only_item_changed(games, r.store.games, id)
            /\ game_fields_kept(games[id], r.store.games[id], u)
            /\ r.store.next_id = next_id
            /\ r.store.limit = limit

C21_BookStore ==
    \A id \in DOMAIN books, u \in BookUpdateInputs, now \in Times :
        LET r == update_book(BookStoreState, id, u, now) IN
        r.exc = None =>
            /\ only_item_changed(books, r.store.books, id)
            /\ book_fields_kept(books[id], r.store.books[id], u)
            /\ r.store.next_id = book_next_id
            /\ r.store.limit = book_limit

C21_MultiUserStore ==
    /\ \A id \in DOMAIN db_games, u \in GameUpdateInputs, now \in Times :
          LET r == db_update_game(DbState, db_games[id].user_id, id, u, now) IN
          r.exc = None =>
              /\ only_item_changed(db_games, r.store.games, id)
              /\ game_fields_kept(db_games[id], r.store.games[id], u)
              /\ r.store.games[id].user_id = db_games[id].user_id
              /\ r.store.books = db_books
              /\ r.store.seq = db_seq
              /\ r.store.settings = db_settings
    /\ \A id \in DOMAIN db_books, u \in BookUpdateInputs, now \in Times :
          LET r == db_update_book(DbState, db_books[id].user_id, id, u, now) IN
          r.exc = None =>
              /\ only_item_changed(db_books, r.store.books, id)
              /\ book_fields_kept(db_books[id], r.store.books[id], u)
              /\ r.store.books[id].user_id = db_books[id].user_id
              /\ r.store.games = db_games
              /\ r.store.seq = db_seq
              /\ r.store.settings = db_settings

\* C21: a successful update-item changes only the target item and, within it,
\* only the fields the request provides (plus ended_at when the status
\* changes): id and created_at never change, fields not provided keep their
\* values, and every other item, the next id and the limit are unchanged.
C21_UpdateChangesOnlyProvidedFields ==
    /\ target = "GameStore" => C21_GameStore
    /\ target = "BookStore" => C21_BookStore
    /\ target \in DbTargets => C21_MultiUserStore

\* a successful update has just returned while the store holds a second item
C21_UpdatedBesideAnotherItem ==
    \/ last = Call("update_game", None) /\ target = "GameStore" /\ Cardinality(DOMAIN games) = 2
    \/ last = Call("update_book", None) /\ target = "BookStore" /\ Cardinality(DOMAIN books) = 2


\* a title as the specification requires it stored: non-empty and trimmed
title_well_formed(s) == Len(s) > 0 /\ strip(s) = s

\* C22: in every reachable state of every store variant every stored item's
\* title is non-empty and has no leading or trailing whitespace, after any
\* add-item and any update-item that provides a title.
C22_TitlesNonEmptyAndTrimmed ==
    /\ \A i \in DOMAIN games : title_well_formed(games[i].name)
    /\ \A i \in DOMAIN books : title_well_formed(books[i].title)
    /\ \A i \in DOMAIN db_games : title_well_formed(db_games[i].name)
    /\ \A i \in DOMAIN db_books : title_well_formed(db_books[i].title)


\* the lists of the mapping m in which the item x appears
lists_holding(m, x) == {k \in DOMAIN m : x \in m[k]}

C23_GameStore ==
    LET m == get_all_games(GameStoreState) IN
    /\ DOMAIN m = GameStatus
    /\ \A i \in DOMAIN games : lists_holding(m, games[i]) = {games[i].status}

C23_BookStore ==
    LET m == get_all_books(BookStoreState) IN
    /\ DOMAIN m = BookStatus
    /\ \A i \in DOMAIN books : lists_holding(m, books[i]) = {books[i].status}

C23_MultiUserStore ==
    \A user_id \in Users :
        LET g == db_get_all_games(DbState, user_id)
            b == db_get_all_books(DbState, user_id)
        IN  /\ DOMAIN g = GameStatus
            /\ DOMAIN b = BookStatus
            /\ \A i \in DOMAIN db_games :
                  lists_holding(g, db_games[i]) =
                      IF db_games[i].user_id = user_id THEN {db_games[i].status} ELSE {}
            /\ \A i \in DOMAIN db_books :
                  lists_holding(b, db_books[i]) =
                      IF db_books[i].user_id = user_id THEN {db_books[i].status} ELSE {}

\* C23: list-all-grouped returns a mapping with a key for each of the six
\* statuses, and in any reachable collection (updates with explicit nulls
\* included) every stored item of the owner appears in exactly one list, the
\* one keyed by its current status.
C23_EveryItemInTheListOfItsStatus ==
    /\ Cardinality(GameStatus) = 6 /\ Cardinality(BookStatus) = 6
    /\ target = "GameStore" => C23_GameStore
    /\ target = "BookStore" => C23_BookStore
    /\ target \in DbTargets => C23_MultiUserStore


\* the in-memory fields of the GameStore
memoryVars == <<games, next_id, limit>>

\* C24: every operation of the JSON game store that writes the in-memory
\* collection, next id or limit, the reload of a manual inbound GitHub sync
\* included, runs while holding the store's lock: a step that changes them is
\* a step of the request that holds the lock, so no reload interleaves with
\* the check-then-write sequence of a concurrent call.
C24_MemoryChangesOnlyUnderLock ==
    [][memoryVars' # memoryVars =>
         \E t \in Threads : lock = {t} /\ pc[t] \in {"check", "write"} /\ pc'[t] # pc[t]]_vars


\* the calls of the JSON stores that mutate
MutatingOps ==
    {"add_game", "update_game", "delete_game", "add_book", "update_book", "delete_book",
     "update_limit"}

\* C25: in the JSON-file stores, whenever a mutating operation returns success
\* to its caller, the persisted file holds exactly the in-memory collection,
\* next id and limit as of that operation.
C25_SuccessMeansPersisted ==
    [][(last'.op \in MutatingOps /\ last'.exc = None) =>
          /\ target = "GameStore" =>
                data_file' = save_data([games |-> games', next_id |-> next_id', limit |-> limit'])
          /\ target = "BookStore" =>
                book_file' = book_save_data([books |-> books', next_id |-> book_next_id',
                                             limit |-> book_limit'])]_vars


\* C26: the limit contained in the response of the set-limit endpoints equals
\* the limit that an immediately following get-counts returns for the same
\* owner, for every requested value the schema accepts (1 to 20).
C26_LimitResponseIsStoredLimit ==
    \A n \in LimitUpdateValues :
        /\ target = "GameStore" =>
              LET r == update_limit(GameStoreState, n) IN
              r.exc = None => update_limit_response(n).new_limit = get_active_count(r.store).limit
        /\ target = "BookStore" =>
              LET r == book_update_limit(BookStoreState, n) IN
              r.exc = None => update_limit_response(n).new_limit = get_reading_count(r.store).limit
        /\ target = "MultiUserStore.games" =>
              \A u \in Users :
                  LET r == update_user_setting(DbState, u, "game_limit", n) IN
                  r.exc = None =>
                      update_limit_response(n).new_limit = db_get_active_count(r.store, u).limit
        /\ target = "MultiUserStore.books" =>
              \A u \in Users :
                  LET r == update_user_setting(DbState, u, "book_limit", n) IN
                  r.exc = None =>
                      update_limit_response(n).new_limit = db_get_reading_count(r.store, u).limit


C27_GameStore ==
    \A id \in DOMAIN games, u \in GameUpdateInputs, now \in Times :
        LET r == update_game(GameStoreState, id, u, now) IN
        r.exc \in LimitExceeded => r.store.games[id] = games[id]

C27_BookStore ==
    \A id \in DOMAIN books, u \in BookUpdateInputs, now \in Times :
        LET r == update_book(BookStoreState, id, u, now) IN
        r.exc \in LimitExceeded => r.store.books[id] = books[id]

C27_MultiUserStore ==
    /\ \A id \in DOMAIN db_games, u \in GameUpdateInputs, now \in Times :
          LET r == db_update_game(DbState, db_games[id].user_id, id, u, now) IN
          r.exc \in LimitExceeded => r.store.games[id] = db_games[id]
    /\ \A id \in DOMAIN db_books, u \in BookUpdateInputs, now \in Times :
          LET r == db_update_book(DbState, db_books[id].user_id, id, u, now) IN
          r.exc = "GameTrackerException" => r.store.books[id] = db_books[id]

\* C27: an update-item call that fails with LimitExceeded leaves the target
\* item's title, status, ended_at and every other field unchanged in the
\* in-memory collection.
C27_LimitFailureChangesNothing ==
    /\ target = "GameStore" => C27_GameStore
    /\ target = "BookStore" => C27_BookStore
    /\ target \in DbTargets => C27_MultiUserStore


C29_GithubHoldsLatestSave ==
    (sync_enabled /\ pushes = {} /\ data_file.exists) => github_file = data_file



\* the endpoints whose handlers can modify the item collection or the limit
ModifyingEndpoints ==
    {"add_game", "update_game", "delete_game", "update_limit",
     "add_book", "update_book", "delete_book", "sync_from_github"}

\* C30: a request that carries no valid bearer token, sent to an endpoint
\* whose handler can modify store state (the GitHub inbound sync included),
\* changes neither the item collection nor the limit nor the stored data.
C30_NoChangeWithoutValidToken ==
    [][(last'.op \in ModifyingEndpoints /\ ~valid_token(last'.credentials))
          => UNCHANGED storeVars]_vars

====
